---- MODULE Spec2Model ----
(***************************************************************************)
(* A model of the ethcontract binding generator: name resolution, method   *)
(* generation, event generation with the Event::parse_log dispatcher, the  *)
(* event data types and filter builders, the deployment generator, the     *)
(* generated operations at run time, the contract! macro's argument        *)
(* handling, and the signed integer I256 with its conversions from and to  *)
(* text and primitive integers.                                            *)
(*                                                                         *)
(* Text is modelled as a sequence of one-character strings, so that the    *)
(* case conversions are computed character by character as the code does.  *)
(***************************************************************************)
EXTENDS Naturals, Integers, Sequences, FiniteSets, TLC

VARIABLES
    inputs,         \* the raw parameter names of the list being expanded
    idents,         \* expand_inputs' identifiers for `inputs`, or "none"
    events,         \* the descriptor's events (abi.events)
    iterOrder,      \* the order abi.events() yields them in (a HashMap's)
    iterOrder2,     \* the order abi.events() yields them in on a second run
    generated,      \* the first run's output of the event generator, or "none"
    generated2,     \* the second run's output, or "none"
    log,            \* the raw log last handed to Event::parse_log, or "none"
    tried,          \* the events parse_log tried to decode `log` as, in order
    result,         \* what parse_log returned for `log`, or "none"
    functions,      \* the descriptor's functions (abi.functions)
    funcOrder,      \* the order abi.functions() yields them in
    aliases,        \* cx.method_aliases: a set of <<signature, identifier>>
    aliasOrder,     \* the order aliases.keys() yields the signatures in
    methods,        \* what methods::expand returned, or "none"
    macroInput,     \* the contract! macro's parameters, as written
    parsed,         \* what ContractArgs::spanned_parse returned, or "none"
    builder,        \* what ContractArgs::into_builder returned, or "none"
    event,          \* the event handed to expand_data_type / expand_builder_type
    dataType,       \* what expand_data_type returned for `event`, if called
    builderType,    \* what expand_builder_type returned for `event`, if called
    tokens,         \* the tokens last handed to the generated from_tokens
    decoded,        \* what from_tokens returned for `tokens`, if called
    cx,             \* the Context of the deployment generator
    deployment,     \* what deployment::expand returned for `cx`, if called
    stdout,         \* the number of lines written to standard output
    lookup,         \* the last call of the generated `deployed`, if any
    operation,      \* the generated operation last called at run time
    outcome,        \* how that call ended, if there was one
    built,          \* the last call of the generated `builder`, if any
    literal,        \* the string in hand: written by the caller, or formatted
    parsedInt,      \* what from_dec_str / from_hex_str returned for `literal`
    int,            \* an I256, as its raw U256
    format,         \* the format `int` was written to `literal` with, if it was
    conversion,     \* the last conversion from or to a primitive integer
    ordering        \* the last comparison of `int` with another I256

vars == <<inputs, idents, events, iterOrder, iterOrder2, generated, generated2,
          log, tried, result, functions, funcOrder, aliases, aliasOrder,
          methods, macroInput, parsed, builder,
          event, dataType, builderType, tokens, decoded,
          cx, deployment, stdout, lookup, operation, outcome, built,
          literal, parsedInt, int, format, conversion, ordering>>

namesVars == <<inputs, idents>>
eventVars == <<events, iterOrder, iterOrder2, generated, generated2, log, tried, result>>
methodVars == <<functions, funcOrder, aliases, aliasOrder, methods>>
macroVars == <<macroInput, parsed, builder>>
dataVars == <<event, dataType, builderType, tokens, decoded>>
deployVars == <<cx, deployment, stdout, lookup, built>>
runtimeVars == <<operation, outcome>>
intVars == <<literal, parsedInt, int, format, conversion, ordering>>

\* A value not produced yet, and a value produced.
NotYet == [done |-> FALSE]
Done(v) == [done |-> TRUE, val |-> v]

(***************************************************************************)
(* Sequences                                                               *)
(***************************************************************************)
Range(s) == {s[i] : i \in DOMAIN s}

SeqsUpTo(S, n) == UNION {[1..k -> S] : k \in 0..n}

IsInjective(s) == \A i, j \in DOMAIN s : s[i] = s[j] => i = j

Perms(S) == {s \in [1..Cardinality(S) -> S] : Range(s) = S}

(***************************************************************************)
(* Characters                                                              *)
(***************************************************************************)
LowerChars == {"a", "b", "c", "e", "f", "l", "m", "p", "s"}
UpperChars == {"A", "B", "C", "P", "S"}
DigitChars == {"0", "1", "2", "3", "4", "5", "6", "7", "8", "9"}

\* char::is_lowercase / is_uppercase / is_alphanumeric
IsLowercase(c) == c \in LowerChars
IsUppercase(c) == c \in UpperChars
IsAlphanumeric(c) == c \in LowerChars \cup UpperChars \cup DigitChars

\* char::to_ascii_lowercase / to_ascii_uppercase
ToAsciiLowercase(c) ==
    CASE c = "A" -> "a" [] c = "B" -> "b" [] c = "C" -> "c"
      [] c = "P" -> "p" [] c = "S" -> "s" [] OTHER -> c
ToAsciiUppercase(c) ==
    CASE c = "a" -> "A" [] c = "b" -> "B" [] c = "c" -> "C"
      [] c = "p" -> "P" [] c = "s" -> "S"
      [] c = "e" -> "E" [] c = "f" -> "F" [] c = "l" -> "L" [] c = "m" -> "M"
      [] OTHER -> c

\* The byte of a character, for String's Ord (ASCII order: digits, upper
\* case, '_', lower case).
CharCode(c) ==
    CASE c = "0" -> 48 [] c = "1" -> 49 [] c = "2" -> 50 [] c = "3" -> 51
      [] c = "4" -> 52 [] c = "5" -> 53 [] c = "6" -> 54 [] c = "7" -> 55
      [] c = "8" -> 56 [] c = "9" -> 57
      [] c = "A" -> 65 [] c = "B" -> 66 [] c = "C" -> 67 [] c = "P" -> 80
      [] c = "S" -> 83 [] c = "_" -> 95
      [] c = "a" -> 97 [] c = "b" -> 98 [] c = "c" -> 99 [] c = "e" -> 101
      [] c = "f" -> 102 [] c = "l" -> 108 [] c = "m" -> 109 [] c = "p" -> 112
      [] c = "s" -> 115 [] OTHER -> 0

\* str < str: lexicographic on bytes, a proper prefix first.
RECURSIVE StrLess(_, _)
StrLess(s, t) ==
    IF t = <<>> THEN FALSE
    ELSE IF s = <<>> THEN TRUE
    ELSE IF CharCode(Head(s)) # CharCode(Head(t))
         THEN CharCode(Head(s)) < CharCode(Head(t))
    ELSE StrLess(Tail(s), Tail(t))

(***************************************************************************)
(* Inflector's case conversions, as the generator calls them               *)
(***************************************************************************)
\* trim_right: the text without its trailing non-alphanumeric characters.
RECURSIVE TrimRight(_)
TrimRight(s) ==
    IF s = <<>> THEN <<>>
    ELSE IF IsAlphanumeric(s[Len(s)]) THEN s
    ELSE TrimRight(SubSeq(s, 1, Len(s) - 1))

\* char_is_uppercase: c == c.to_ascii_uppercase(), true of a digit too.
CharIsUppercase(c) == c = ToAsciiUppercase(c)

\* next_or_previous_char_is_lowercase, with 'A' for a missing neighbour.
NextOrPreviousCharIsLowercase(s, i) ==
    \/ (i + 1 <= Len(s) /\ IsLowercase(s[i + 1]))
    \/ (i - 1 >= 1 /\ IsLowercase(s[i - 1]))

RECURSIVE SnakeLoop(_, _, _, _, _)
SnakeLoop(s, t, i, first, res) ==
    IF i > Len(t) THEN res
    ELSE LET c == t[i] IN
         IF ~IsAlphanumeric(c)
         THEN IF ~first THEN SnakeLoop(s, t, i + 1, TRUE, Append(res, "_"))
              ELSE SnakeLoop(s, t, i + 1, first, res)
         ELSE IF ~first /\ CharIsUppercase(c) /\ NextOrPreviousCharIsLowercase(s, i)
         THEN SnakeLoop(s, t, i + 1, FALSE, res \o <<"_", ToAsciiLowercase(c)>>)
         ELSE SnakeLoop(s, t, i + 1, FALSE, Append(res, ToAsciiLowercase(c)))

to_snake_case(s) == SnakeLoop(s, TrimRight(s), 1, TRUE, <<>>)

\* to_pascal_case: to_case_camel_like with new_word = true, last_char = ' '.
RECURSIVE PascalLoop(_, _, _, _, _, _)
PascalLoop(t, i, newWord, lastChar, found, res) ==
    IF i > Len(t) THEN res
    ELSE LET c == t[i] IN
         IF ~IsAlphanumeric(c) /\ found
         THEN PascalLoop(t, i + 1, TRUE, lastChar, found, res)
         ELSE IF ~found /\ ~IsAlphanumeric(c)
         THEN PascalLoop(t, i + 1, newWord, lastChar, found, res)
         ELSE IF c \in DigitChars
         THEN PascalLoop(t, i + 1, TRUE, lastChar, TRUE, Append(res, c))
         ELSE IF newWord \/ (IsLowercase(lastChar) /\ IsUppercase(c))
         THEN PascalLoop(t, i + 1, FALSE, lastChar, TRUE,
                         Append(res, ToAsciiUppercase(c)))
         ELSE PascalLoop(t, i + 1, newWord, c, TRUE,
                         Append(res, ToAsciiLowercase(c)))

to_pascal_case(s) == PascalLoop(TrimRight(s), 1, TRUE, " ", FALSE, <<>>)

(***************************************************************************)
(* NameResolver: methods.rs input_name_to_ident and util::safe_ident       *)
(***************************************************************************)
\* The reserved words of the target language that the names used here can
\* produce.
Reserved == {<<"s", "e", "l", "f">>, <<"a", "s">>}

\* util::safe_ident: a reserved word is escaped with a trailing underscore.
safe_ident(name) == IF name \in Reserved THEN Append(name, "_") ELSE name

\* format!("{}", index) for the indices a parameter list here can have.
Digit(n) ==
    CASE n = 0 -> "0" [] n = 1 -> "1" [] n = 2 -> "2" [] n = 3 -> "3"
      [] n = 4 -> "4" [] n = 5 -> "5" [] n = 6 -> "6" [] n = 7 -> "7"
      [] n = 8 -> "8" [] OTHER -> "9"
FormatIndex(n) == IF n < 10 THEN <<Digit(n)>> ELSE <<Digit(n \div 10), Digit(n % 10)>>

\* A resolver that does not escape reserved words.
input_name_to_ident_unescaped(index, name) ==
    IF name = <<>> THEN <<"p">> \o FormatIndex(index) ELSE to_snake_case(name)

input_name_to_ident(index, name) ==
    safe_ident(IF name = <<>> THEN <<"p">> \o FormatIndex(index)
               ELSE to_snake_case(name))

\* expand_inputs / expand_inputs_call_arg: one identifier per parameter,
\* by position (enumerate() counts from 0).
expand_input_names(names) ==
    [i \in DOMAIN names |-> input_name_to_ident(i - 1, names[i])]

(***************************************************************************)
(* Parameter lists: methods.rs expand_inputs over a function's inputs      *)
(***************************************************************************)
MaxParams == 3

\* Raw parameter names as an ABI can give them: unnamed, lower and upper
\* case, with digits, with a leading underscore, and reserved words.
RawNames ==
    { <<>>, <<"a">>, <<"A">>, <<"_", "a">>, <<"p", "1">>, <<"P", "1">>,
      <<"s", "e", "l", "f">>, <<"S", "e", "l", "f">>, <<"a", "s">>,
      <<"C", "a", "m", "e", "l", "C", "a", "s", "e", "1">> }

NamesIdle == inputs = <<>> /\ idents = NotYet
EventsIdle ==
    /\ events = {} /\ iterOrder = <<>> /\ iterOrder2 = <<>>
    /\ generated = NotYet /\ generated2 = NotYet
    /\ log = NotYet /\ tried = <<>> /\ result = NotYet
MethodsIdle ==
    /\ functions = {} /\ funcOrder = <<>> /\ aliases = {} /\ aliasOrder = <<>>
    /\ methods = NotYet
MacroIdle == macroInput = <<>> /\ parsed = NotYet /\ builder = NotYet
\* The value of `event` while no event is being expanded.
NoEvent == [name |-> <<>>, anonymous |-> TRUE, inputs |-> <<>>]
DataIdle ==
    /\ event = NoEvent /\ dataType = NotYet /\ builderType = NotYet
    /\ tokens = <<>> /\ decoded = NotYet
\* The value of `cx` while the deployment generator is not in use.
NoContext == [contract |-> [name |-> "", bytecode |-> <<>>, networks |-> <<>>,
                            constructor |-> [present |-> FALSE, inputs |-> <<>>]],
              networks |-> <<>>]
DeployIdle ==
    cx = NoContext /\ deployment = NotYet /\ stdout = 0 /\ lookup = NotYet /\ built = NotYet
RuntimeIdle == operation = NotYet /\ outcome = NotYet
IntIdle ==
    /\ literal = <<>> /\ parsedInt = NotYet /\ int = 0 /\ format = NotYet
    /\ conversion = NotYet /\ ordering = NotYet

\* A parameter list of an ABI: several parameters may be unnamed, and no
\* name is declared twice.
DistinctNamed(names) ==
    \A i, j \in DOMAIN names : (names[i] = names[j] /\ names[i] # <<>>) => i = j

NamesInit ==
    /\ inputs \in {l \in SeqsUpTo(RawNames, MaxParams) : DistinctNamed(l)}
    /\ idents = NotYet
    /\ EventsIdle /\ MethodsIdle /\ MacroIdle /\ DataIdle /\ DeployIdle /\ RuntimeIdle /\ IntIdle

\* expand_inputs names every parameter of the list.
ExpandInputs ==
    /\ ~idents.done
    /\ idents' = Done(expand_input_names(inputs))
    /\ UNCHANGED <<inputs, eventVars, methodVars, macroVars, dataVars, deployVars, runtimeVars, intVars>>

NamesNext == ExpandInputs

SpecNames == NamesInit /\ [][NamesNext]_vars

(***************************************************************************)
(* C6, as claimed: the identifiers generated for the entries of one        *)
(* parameter list are pairwise distinct.                                   *)
(***************************************************************************)
C6_IdentifiersDistinct == idents.done => IsInjective(idents.val)

(***************************************************************************)
(* C10: an unnamed parameter at position i is named p{i}; a named one gets *)
(* the snake-case form of its name, with `_` appended when that form is a  *)
(* reserved word; the identifier is never a reserved word.  The cases of   *)
(* the repository's own tests are among the names.                         *)
(***************************************************************************)
C10_NameResolution ==
    idents.done =>
        /\ DOMAIN idents.val = DOMAIN inputs
        /\ \A i \in DOMAIN inputs :
            /\ inputs[i] = <<>> => idents.val[i] = <<"p">> \o FormatIndex(i - 1)
            /\ inputs[i] # <<>> =>
                LET sn == to_snake_case(inputs[i])
                IN  idents.val[i] = IF sn \in Reserved THEN sn \o <<"_">> ELSE sn
            /\ idents.val[i] \notin Reserved
            /\ inputs[i] = <<"s", "e", "l", "f">> =>
                idents.val[i] = <<"s", "e", "l", "f", "_">>
            /\ inputs[i] = <<"C", "a", "m", "e", "l", "C", "a", "s", "e", "1">> =>
                idents.val[i] = <<"c", "a", "m", "e", "l", "_", "c", "a", "s", "e", "_", "1">>

\* A list with an unnamed parameter after the first position, a reserved
\* word in either case and a mixed-case name has been expanded.
C10_Witness ==
    /\ idents.done
    /\ Len(inputs) = 3
    /\ inputs[2] = <<>>
    /\ inputs[1] = <<"S", "e", "l", "f">>
    /\ inputs[3] = <<"C", "a", "m", "e", "l", "C", "a", "s", "e", "1">>
    /\ idents.val[2] = <<"p", "1">>

(***************************************************************************)
(* TypeMapper: types::expand                                               *)
(***************************************************************************)
\* types::expand: the target type of a parameter type, or an error for a
\* type that has none.
Supported == {"bool", "address", "uint256"}
types_expand(kind) ==
    IF kind \in Supported THEN [ok |-> TRUE, type |-> <<"T", kind>>]
    ELSE [ok |-> FALSE, type |-> <<"T", "error">>]

(***************************************************************************)
(* Events: the descriptor's events and raw logs                            *)
(***************************************************************************)
MaxEvents == 3
MaxTopics == 3
MaxDataWords == 1

Param(kind, indexed) == [kind |-> kind, indexed |-> indexed]

\* Event { name, inputs, anonymous }.  The universe has a standard event
\* with one indexed parameter (A), an overload of it (A with another
\* type), a standard event with a data parameter (B), two anonymous events
\* that decode the same logs (C and Ab), an anonymous event whose name
\* has the Pascal case form of A's (a), and a standard event with a
\* parameter type that has no mapping (P).
EventUniverse ==
    { [name |-> <<"A">>, anonymous |-> FALSE,
       inputs |-> <<Param("address", TRUE)>>],
      [name |-> <<"A">>, anonymous |-> FALSE,
       inputs |-> <<Param("uint256", TRUE)>>],
      [name |-> <<"B">>, anonymous |-> FALSE,
       inputs |-> <<Param("address", TRUE), Param("uint256", FALSE)>>],
      [name |-> <<"C">>, anonymous |-> TRUE,
       inputs |-> <<Param("address", TRUE), Param("address", TRUE)>>],
      [name |-> <<"A", "b">>, anonymous |-> TRUE,
       inputs |-> <<Param("uint256", TRUE), Param("uint256", TRUE)>>],
      [name |-> <<"a">>, anonymous |-> TRUE,
       inputs |-> <<Param("address", TRUE)>>],
      [name |-> <<"P">>, anonymous |-> FALSE,
       inputs |-> <<Param("uint512", TRUE)>>] }

\* EventExt::abi_signature: the name and the canonical type list.
abi_signature(e) == <<e.name, [i \in DOMAIN e.inputs |-> e.inputs[i].kind]>>

\* Keccak-256, taken to be free of collisions.
Keccak(text) == [keccak |-> text]

\* Event::signature: the hash of the ABI signature.
signature(e) == Keccak(abi_signature(e))

\* A 32-byte word that is the signature hash of no event of the universe.
OtherWord == Keccak(<<<<"0">>, <<>>>>)

TopicWords == {signature(e) : e \in {u \in EventUniverse : ~u.anonymous}} \cup {OtherWord}

\* RawLog { topics, data }: the first topic is any word; the topics after
\* it and the data count only by their number (data in 32-byte words).
RawLogs ==
    { [topics |-> t, data |-> d] :
        t \in {q \in SeqsUpTo(TopicWords, MaxTopics) :
                  \A i \in DOMAIN q : i > 1 => q[i] = OtherWord},
        d \in 0..MaxDataWords }

NumIndexed(e) == Cardinality({i \in DOMAIN e.inputs : e.inputs[i].indexed})
NumData(e) == Cardinality({i \in DOMAIN e.inputs : ~e.inputs[i].indexed})

\* RawLog::decode(event): ethabi's Event::parse_log.  A standard event
\* requires its signature hash as the first topic; the remaining topics
\* must be exactly the indexed parameters; the data must hold every
\* non-indexed parameter.
Decodes(e, l) ==
    LET skip == IF e.anonymous THEN 0 ELSE 1
    IN  /\ e.anonymous \/ (Len(l.topics) >= 1 /\ l.topics[1] = signature(e))
        /\ Len(l.topics) - skip = NumIndexed(e)
        /\ l.data >= NumData(e)

\* abi.events(): a HashMap from name to the overloads of that name, in
\* the artifact's order; events of one name are yielded together.
SameNameAdjacent(order) ==
    \A i, j, k \in DOMAIN order :
        (i < j /\ j < k /\ order[i].name = order[k].name) =>
            order[j].name = order[i].name

AbiOrders(evs) == {o \in Perms(evs) : SameNameAdjacent(o)}

\* Two iterations of the same descriptor keep the overloads of a name in
\* the artifact's order.
SameOverloadOrder(o1, o2) ==
    \A i, j \in DOMAIN o1 : \A k, m \in DOMAIN o2 :
        (i < j /\ o1[i].name = o1[j].name /\ o2[k] = o1[i] /\ o2[m] = o1[j]) => k < m

\* abi.event(name): the first overload of that name.
abi_event(name) ==
    LET first == CHOOSE i \in DOMAIN iterOrder :
                    /\ iterOrder[i].name = name
                    /\ \A j \in 1..(i - 1) : iterOrder[j].name # name
    IN  iterOrder[first]

(***************************************************************************)
(* EventGenerator: events.rs                                               *)
(***************************************************************************)
\* expand_struct_name: the Pascal case form of the event's name.
expand_struct_name(e) == to_pascal_case(e.name)

\* sort_unstable_by_key(|(event, _, _)| &event.name): some arrangement of
\* the same entries in which the names do not decrease; the sort is not
\* stable, so entries of one name may come out in either order.
SortedByName(order) ==
    {o \in Perms(Range(order)) :
        \A i, j \in DOMAIN o : i < j => ~StrLess(o[j].name, o[i].name)}

\* The (event, struct_name, decode_event) triple of expand_event_from_log;
\* decode_event looks the event up again by its name when the log arrives.
EventEntry(e) ==
    [event |-> e, struct_name |-> expand_struct_name(e), decode_name |-> e.name]

RECURSIVE FilterSeq(_, _)
FilterSeq(seq, keep) ==
    IF seq = <<>> THEN <<>>
    ELSE IF Head(seq) \in keep THEN <<Head(seq)>> \o FilterSeq(Tail(seq), keep)
    ELSE FilterSeq(Tail(seq), keep)

\* A dispatcher built from the events in iteration order, without the sort.
expand_event_from_log_unsorted(order, all_events) ==
    [ arms |-> [i \in DOMAIN FilterSeq(order, {e \in Range(order) : ~e.anonymous})
                  |-> EventEntry(FilterSeq(order, {e \in Range(order) : ~e.anonymous})[i])],
      trials |-> [i \in DOMAIN FilterSeq(order, {e \in Range(order) : e.anonymous})
                  |-> EventEntry(FilterSeq(order, {e \in Range(order) : e.anonymous})[i])] ]

\* expand_event_from_log: the match arms of the standard events and the
\* trial decodes of the anonymous events, both in the sorted order.
expand_event_from_log(order, all_events) ==
    LET standard == FilterSeq(all_events, {e \in Range(order) : ~e.anonymous})
        anonymous == FilterSeq(all_events, {e \in Range(order) : e.anonymous})
    IN  [ arms |-> [i \in DOMAIN standard |-> EventEntry(standard[i])],
          trials |-> [i \in DOMAIN anonymous |-> EventEntry(anonymous[i])] ]

\* expand_event_enum: one variant per event, in iteration order.
expand_event_enum(order) == [i \in DOMAIN order |-> expand_struct_name(order[i])]

\* expand_structs_mod: one data type per event, in iteration order.
expand_structs_mod(order) == [i \in DOMAIN order |-> expand_struct_name(order[i])]

\* A generator with a filter method and a builder for every event.
expand_filters_all_events(order) == [i \in DOMAIN order |-> expand_struct_name(order[i])]

\* expand_filters: a filter method and a builder per standard event, in
\* iteration order; nothing (no Events type, no accessor, no builders
\* module) when there is no standard event.
expand_filters(order) ==
    LET standard == FilterSeq(order, {e \in Range(order) : ~e.anonymous})
    IN  [i \in DOMAIN standard |-> expand_struct_name(standard[i])]

\* expand_params(event)?, as expand_data_type calls it: every parameter
\* type of the event has a mapping.
TypesMap(e) == \A i \in DOMAIN e.inputs : types_expand(e.inputs[i].kind).ok

\* The output of a pass that failed: the error, and nothing else.
EventsErr ==
    [ ok |-> FALSE, data_types |-> <<>>, filters |-> <<>>, all_events |-> FALSE,
      variants |-> <<>>, from_log |-> [arms |-> <<>>, trials |-> <<>>] ]

\* A generator that emits the Event enum and its ParseLog implementation
\* for a descriptor without events as well.
events_expand_always_all_events(order, all_events) ==
    IF \E i \in DOMAIN order : ~TypesMap(order[i]) THEN EventsErr
    ELSE [ ok |-> TRUE,
           data_types |-> expand_structs_mod(order),
           filters |-> expand_filters(order),
           all_events |-> TRUE,
           variants |-> expand_event_enum(order),
           from_log |-> expand_event_from_log(order, all_events) ]

\* events::expand: the data types, the filters, and (expand_all_events)
\* the Event enum with its ParseLog implementation unless there is no
\* event; an event with a parameter type that has no mapping fails the
\* pass (expand_structs_mod(cx)?).
events_expand(order, all_events) ==
    IF \E i \in DOMAIN order : ~TypesMap(order[i]) THEN EventsErr
    ELSE [ ok |-> TRUE,
           data_types |-> expand_structs_mod(order),
           filters |-> expand_filters(order),
           all_events |-> order # <<>>,
           variants |-> IF order = <<>> THEN <<>> ELSE expand_event_enum(order),
           from_log |-> IF order = <<>> THEN [arms |-> <<>>, trials |-> <<>>]
                        ELSE expand_event_from_log(order, all_events) ]

(***************************************************************************)
(* The generated Event::parse_log                                          *)
(***************************************************************************)
Ok(variant, via) == [kind |-> "Ok", variant |-> variant, via |-> via]
InvalidData == [kind |-> "Err", variant |-> <<>>, via |-> "none"]

\* The first match arm whose signature is the topic, if any (Rust's match
\* takes the first arm that matches).
MatchingArms(arms, topic) == {i \in DOMAIN arms : signature(arms[i].event) = topic}
FirstIn(S) == CHOOSE i \in S : \A j \in S : i <= j

\* The anonymous trial decodes, one at a time from entry i on: the first
\* that decodes the log is returned, and InvalidData after the last.
RECURSIVE TryAnonymous(_, _, _, _)
TryAnonymous(trials, i, l, attempts) ==
    IF i > Len(trials) THEN [result |-> InvalidData, tried |-> attempts]
    ELSE LET e == abi_event(trials[i].decode_name)
         IN  IF Decodes(e, l)
             THEN [result |-> Ok(trials[i].struct_name, "trial"),
                   tried |-> Append(attempts, e)]
             ELSE TryAnonymous(trials, i + 1, l, Append(attempts, e))

\* A dispatcher that runs the anonymous trial decodes before the match on
\* the first topic.
parse_log_trials_first(from_log, l) ==
    LET anon == TryAnonymous(from_log.trials, 1, l, <<>>)
        hits == IF l.topics = <<>> THEN {} ELSE MatchingArms(from_log.arms, l.topics[1])
    IN  IF anon.result.kind = "Ok" \/ hits = {} THEN anon
        ELSE LET arm == from_log.arms[FirstIn(hits)]
                 e == abi_event(arm.decode_name)
             IN  IF Decodes(e, l)
                 THEN [result |-> Ok(arm.struct_name, "topic"),
                       tried |-> Append(anon.tried, e)]
                 ELSE [result |-> InvalidData, tried |-> Append(anon.tried, e)]

\* A dispatcher that returns the last anonymous trial without decoding.
parse_log_unchecked_trial(from_log, l) ==
    LET hits == IF l.topics = <<>> THEN {} ELSE MatchingArms(from_log.arms, l.topics[1])
        arm == from_log.arms[FirstIn(hits)]
    IN  IF hits # {} /\ Decodes(abi_event(arm.decode_name), l)
        THEN [result |-> Ok(arm.struct_name, "topic"),
              tried |-> <<abi_event(arm.decode_name)>>]
        ELSE IF from_log.trials = <<>>
        THEN [result |-> InvalidData, tried |-> <<>>]
        ELSE [result |-> Ok(from_log.trials[Len(from_log.trials)].struct_name, "trial"),
              tried |-> <<>>]

\* parse_log: standard_event is None without a first topic, and otherwise
\* the match on it: the arm's decode (an error if it fails) or InvalidData
\* when no arm matches.  Only Some(Ok(data)) returns; every other outcome
\* goes on to the anonymous trial decodes and the final InvalidData.
parse_log(from_log, l) ==
    LET hits == IF l.topics = <<>> THEN {} ELSE MatchingArms(from_log.arms, l.topics[1])
    IN  IF hits = {}
        THEN TryAnonymous(from_log.trials, 1, l, <<>>)
        ELSE LET arm == from_log.arms[FirstIn(hits)]
                 e == abi_event(arm.decode_name)
             IN  IF Decodes(e, l)
                 THEN [result |-> Ok(arm.struct_name, "topic"), tried |-> <<e>>]
                 ELSE TryAnonymous(from_log.trials, 1, l, <<e>>)

\* The generated code is a Rust program only if the variants of the Event
\* enum (and the data types of event_data) have pairwise distinct names.
Compiles(out) == IsInjective(out.variants)

(***************************************************************************)
(* Specification of the dispatcher: generate once, then parse logs         *)
(***************************************************************************)
Descriptors == {evs \in SUBSET EventUniverse : Cardinality(evs) <= MaxEvents}

DispatchInit ==
    /\ events \in Descriptors
    /\ iterOrder \in AbiOrders(events)
    /\ iterOrder2 = <<>>
    /\ generated = NotYet /\ generated2 = NotYet
    /\ log = NotYet /\ tried = <<>> /\ result = NotYet
    /\ NamesIdle /\ MethodsIdle /\ MacroIdle /\ DataIdle /\ DeployIdle /\ RuntimeIdle /\ IntIdle

\* events::expand over the context's descriptor.
Generate ==
    /\ ~generated.done
    /\ \E all_events \in SortedByName(iterOrder) :
          generated' = Done(events_expand(iterOrder, all_events))
    /\ UNCHANGED <<events, iterOrder, iterOrder2, generated2, log, tried, result>>
    /\ UNCHANGED <<namesVars, methodVars, macroVars, dataVars, deployVars, runtimeVars, intVars>>

\* Event::parse_log(log) of the compiled output.
ParseLog ==
    /\ generated.done
    /\ generated.val.all_events
    /\ Compiles(generated.val)
    /\ \E l \in RawLogs :
          LET r == parse_log(generated.val.from_log, l)
          IN  /\ log' = Done(l)
              /\ result' = Done(r.result)
              /\ tried' = r.tried
    /\ UNCHANGED <<events, iterOrder, iterOrder2, generated, generated2>>
    /\ UNCHANGED <<namesVars, methodVars, macroVars, dataVars, deployVars, runtimeVars, intVars>>

DispatchNext == Generate \/ ParseLog

SpecDispatch == DispatchInit /\ [][DispatchNext]_vars

\* The standard events of the descriptor whose signature hash is the first
\* topic of the log, and the anonymous events that decode the log.
TopicMatched(l) ==
    {e \in events : ~e.anonymous /\ l.topics # <<>> /\ signature(e) = l.topics[1]}
AnonymousDecoding(l) == {e \in events : e.anonymous /\ Decodes(e, l)}
LeastByName(S) == CHOOSE e \in S : \A c \in S \ {e} : StrLess(e.name, c.name)

(***************************************************************************)
(* C1, as claimed: a log whose first topic is the signature hash of a      *)
(* standard event that does not decode it gets InvalidData, and no other   *)
(* candidate (no anonymous event) is tried or returned.                    *)
(***************************************************************************)
C1_TopicMatchFailureIsFinal ==
    result.done =>
        \A e \in TopicMatched(log.val) :
            ~Decodes(e, log.val) =>
                /\ result.val = InvalidData
                /\ \A i \in DOMAIN tried : tried[i] = e

(***************************************************************************)
(* C2: when the log is not returned as a standard event and two or more    *)
(* anonymous events decode it, the variant returned is that of the one     *)
(* whose name is least, whatever the iteration order of the events.        *)
(***************************************************************************)
C2_AnonymousTieBreakByName ==
    (result.done /\ result.val.via # "topic") =>
        LET cands == AnonymousDecoding(log.val)
        IN  Cardinality(cands) >= 2 =>
              /\ result.val.kind = "Ok"
              /\ result.val.variant = expand_struct_name(LeastByName(cands))

\* Two anonymous events decode the log, and the events were iterated with
\* the greater name first.
C2_Witness ==
    /\ result.done /\ result.val.via = "trial"
    /\ Cardinality(AnonymousDecoding(log.val)) >= 2
    /\ \E i, j \in DOMAIN iterOrder :
          /\ i < j
          /\ iterOrder[i] \in AnonymousDecoding(log.val)
          /\ iterOrder[j] \in AnonymousDecoding(log.val)
          /\ StrLess(iterOrder[j].name, iterOrder[i].name)

(***************************************************************************)
(* C3: a log whose first topic is the signature hash of a standard event E *)
(* and that decodes as E is returned as variant E, also when anonymous     *)
(* events decode the same log.                                             *)
(***************************************************************************)
C3_TopicMatchTakesPrecedence ==
    result.done =>
        \A e \in TopicMatched(log.val) :
            Decodes(e, log.val) =>
                result.val = Ok(expand_struct_name(e), "topic")

\* A log decoded by the standard event of its first topic and by an
\* anonymous event as well has been dispatched.
C3_Witness ==
    /\ result.done
    /\ \E e \in TopicMatched(log.val) : Decodes(e, log.val)
    /\ AnonymousDecoding(log.val) # {}

(***************************************************************************)
(* C4: when the first topic is absent or is no standard event's signature  *)
(* hash, the anonymous events are tried, and InvalidData is returned when  *)
(* none decodes the log; the variant returned is always that of an event   *)
(* that decodes the log.                                                   *)
(***************************************************************************)
C4_AnonymousFallbackAndSoundness ==
    result.done =>
        /\ TopicMatched(log.val) = {} =>
              /\ AnonymousDecoding(log.val) = {} =>
                    /\ result.val = InvalidData
                    /\ Range(tried) = {e \in events : e.anonymous}
              /\ AnonymousDecoding(log.val) # {} =>
                    /\ result.val.kind = "Ok"
                    /\ result.val.via = "trial"
                    /\ tried[Len(tried)] \in AnonymousDecoding(log.val)
        /\ result.val.kind = "Ok" =>
              \E e \in events :
                  /\ expand_struct_name(e) = result.val.variant
                  /\ Decodes(e, log.val)

\* A log with no first topic and a log with an unknown first topic, with
\* anonymous events in the descriptor that do not decode it.
C4_Witness ==
    /\ result.done
    /\ log.val.topics # <<>>
    /\ TopicMatched(log.val) = {}
    /\ AnonymousDecoding(log.val) = {}
    /\ Cardinality({e \in events : e.anonymous}) >= 2
    /\ result.val = InvalidData

(***************************************************************************)
(* C14: for a descriptor without events the event generator emits nothing: *)
(* no data type, no filter and no builder, no Event type with its          *)
(* all_events accessor and no dispatcher; for a descriptor with events     *)
(* whose generation succeeds it emits the Event type, with a variant per   *)
(* event, and the dispatcher, with an arm or a trial per event.            *)
(***************************************************************************)
C14_NoEventsNoOutput ==
    generated.done =>
        LET out == generated.val
        IN  /\ events = {} =>
                  /\ out.ok
                  /\ out.data_types = <<>>
                  /\ out.filters = <<>>
                  /\ ~out.all_events
                  /\ out.variants = <<>>
                  /\ out.from_log.arms = <<>> /\ out.from_log.trials = <<>>
            /\ (events # {} /\ out.ok) =>
                  /\ out.all_events
                  /\ Len(out.data_types) = Cardinality(events)
                  /\ Len(out.variants) = Cardinality(events)
                  /\ Len(out.from_log.arms) + Len(out.from_log.trials)
                        = Cardinality(events)
            /\ out.ok <=> \A e \in events : TypesMap(e)

\* The generator has run over a descriptor without events.
C14_Witness == generated.done /\ events = {} /\ generated.val.ok

\* The number of entries of a sequence of entries that are of event e.
EntriesOf(entries, e) == Cardinality({i \in DOMAIN entries : entries[i].event = e})

(***************************************************************************)
(* C27: in the output of a pass that succeeds the Event enum has exactly   *)
(* one variant per event of the descriptor, anonymous events included, and *)
(* the dispatcher exactly one match arm (standard event) or one trial      *)
(* decode (anonymous event) per event; the filter methods and builders are *)
(* those of the standard events, one each; a descriptor whose events are   *)
(* all anonymous gets the data types, the enum and the dispatcher but no   *)
(* filter accessor and no builder.                                         *)
(***************************************************************************)
C27_VariantsAndFiltersPerEvent ==
    (generated.done /\ generated.val.ok /\ events # {}) =>
        LET out == generated.val
            standard == FilterSeq(iterOrder, {e \in events : ~e.anonymous})
        IN  /\ out.all_events
            /\ Len(out.variants) = Cardinality(events)
            /\ Len(out.data_types) = Cardinality(events)
            /\ \A i \in DOMAIN iterOrder :
                  /\ out.variants[i] = expand_struct_name(iterOrder[i])
                  /\ out.data_types[i] = expand_struct_name(iterOrder[i])
            /\ \A e \in events :
                  /\ EntriesOf(out.from_log.arms, e) = (IF e.anonymous THEN 0 ELSE 1)
                  /\ EntriesOf(out.from_log.trials, e) = (IF e.anonymous THEN 1 ELSE 0)
            /\ Len(out.from_log.arms) + Len(out.from_log.trials) = Cardinality(events)
            /\ Len(out.filters) = Len(standard)
            /\ \A i \in DOMAIN standard : out.filters[i] = expand_struct_name(standard[i])
            /\ (\A e \in events : e.anonymous) => out.filters = <<>>

C27_Witness ==
    /\ generated.done /\ generated.val.ok
    /\ Cardinality(events) = 2
    /\ \A e \in events : e.anonymous
    /\ Len(generated.val.variants) = 2
    /\ generated.val.filters = <<>>

\* The entries of the dispatcher: its match arms and its trial decodes.
DispatchEntries(out) == Range(out.from_log.arms) \cup Range(out.from_log.trials)

(***************************************************************************)
(* C29, as claimed: for every standard event E the match arm selected by   *)
(* E's signature hash decodes the log with E's own definition and yields   *)
(* E's own variant, also when another event has the same name and other    *)
(* parameters; two events never share a variant or a decode definition.    *)
(* Fails: the variant is named after the event's name alone and the decode *)
(* looks the event up by its name, so overloads share both.                *)
(***************************************************************************)
C29_OwnVariantAndDefinition ==
    (generated.done /\ generated.val.ok) =>
        /\ \A i \in DOMAIN generated.val.from_log.arms :
              abi_event(generated.val.from_log.arms[i].decode_name)
                  = generated.val.from_log.arms[i].event
        /\ \A x, y \in DispatchEntries(generated.val) :
              x.event # y.event =>
                  /\ x.struct_name # y.struct_name
                  /\ abi_event(x.decode_name) # abi_event(y.decode_name)

(***************************************************************************)
(* Two generation runs over the same descriptor                            *)
(***************************************************************************)
\* Each run reads the artifact into a HashMap of its own, and so iterates
\* the events in an order of its own.
RunsInit ==
    /\ events \in Descriptors
    /\ iterOrder \in AbiOrders(events)
    /\ iterOrder2 \in {o \in AbiOrders(events) : SameOverloadOrder(iterOrder, o)}
    /\ generated = NotYet /\ generated2 = NotYet
    /\ log = NotYet /\ tried = <<>> /\ result = NotYet
    /\ NamesIdle /\ MethodsIdle /\ MacroIdle /\ DataIdle /\ DeployIdle /\ RuntimeIdle /\ IntIdle

\* events::expand of the second run.
GenerateAgain ==
    /\ ~generated2.done
    /\ \E all_events \in SortedByName(iterOrder2) :
          generated2' = Done(events_expand(iterOrder2, all_events))
    /\ UNCHANGED <<events, iterOrder, iterOrder2, generated, log, tried, result>>
    /\ UNCHANGED <<namesVars, methodVars, macroVars, dataVars, deployVars, runtimeVars, intVars>>

RunsNext == Generate \/ GenerateAgain

SpecRuns == RunsInit /\ [][RunsNext]_vars

(***************************************************************************)
(* C5, as claimed: two generation runs over the same descriptor produce    *)
(* the same output (the same order of data types, filter builders, Event   *)
(* variants and dispatcher arms), whatever order the events are iterated   *)
(* in.                                                                     *)
(***************************************************************************)
C5_RunsProduceSameOutput ==
    (generated.done /\ generated2.done) => generated.val = generated2.val

(***************************************************************************)
(* MethodGenerator: methods.rs                                             *)
(***************************************************************************)
MaxFunctions == 3
MaxAliases == 2

FnParam(name, kind) == [name |-> name, kind |-> kind]

\* Function { name, inputs, outputs, constant }: no parameter and no
\* output (a), an overload with one of each (a), two of each (b), a
\* function with a parameter type that has no mapping (c), and one whose
\* name and parameter are a reserved word in snake case (Self).
FunctionUniverse ==
    { [name |-> <<"a">>, inputs |-> <<>>, outputs |-> <<>>, constant |-> TRUE],
      [name |-> <<"a">>, inputs |-> <<FnParam(<<>>, "bool")>>,
       outputs |-> <<FnParam(<<>>, "bool")>>, constant |-> FALSE],
      [name |-> <<"b">>,
       inputs |-> <<FnParam(<<"A">>, "address"), FnParam(<<>>, "bool")>>,
       outputs |-> <<FnParam(<<>>, "bool"), FnParam(<<"s">>, "address")>>,
       constant |-> FALSE],
      [name |-> <<"c">>, inputs |-> <<FnParam(<<"a">>, "uint512")>>,
       outputs |-> <<>>, constant |-> TRUE],
      [name |-> <<"S", "e", "l", "f">>,
       inputs |-> <<FnParam(<<"S", "e", "l", "f">>, "bool")>>,
       outputs |-> <<>>, constant |-> TRUE] }

\* FunctionExt::abi_signature: the name and the canonical type list.
fn_signature(f) == <<f.name, [i \in DOMAIN f.inputs |-> f.inputs[i].kind]>>

\* Manual aliases: for two functions of the universe, and for two
\* signatures that belong to no function.
AliasUniverse ==
    { <<fn_signature(CHOOSE f \in FunctionUniverse : f.name = <<"b">>), <<"m">>>>,
      <<fn_signature(CHOOSE f \in FunctionUniverse : f.name = <<"c">>), <<"l">>>>,
      <<<<<<"e">>, <<>>>>, <<"e">>>>,
      <<<<<<"f">>, <<"bool">>>>, <<"f">>>> }

\* expand_inputs: a name and a type per parameter, in order; the first
\* type without a mapping fails the whole list.
expand_inputs(params) ==
    IF \E i \in DOMAIN params : ~types_expand(params[i].kind).ok
    THEN [ok |-> FALSE, params |-> <<>>]
    ELSE [ok |-> TRUE,
          params |-> [i \in DOMAIN params |->
                        [name |-> input_name_to_ident(i - 1, params[i].name),
                         type |-> types_expand(params[i].kind).type]]]

\* expand_inputs_call_arg: the identifiers again, as the call's arguments.
expand_inputs_call_arg(params) ==
    [i \in DOMAIN params |-> input_name_to_ident(i - 1, params[i].name)]

\* A return shape that wraps a single output in a tuple.
expand_fn_outputs_always_tuple(outputs) ==
    IF \E i \in DOMAIN outputs : ~types_expand(outputs[i].kind).ok
    THEN [ok |-> FALSE, shape |-> "none", types |-> <<>>]
    ELSE [ok |-> TRUE, shape |-> IF outputs = <<>> THEN "unit" ELSE "tuple",
          types |-> [i \in DOMAIN outputs |-> types_expand(outputs[i].kind).type]]

\* expand_fn_outputs: () without outputs, the type of a single output, a
\* tuple of the types otherwise.
expand_fn_outputs(outputs) ==
    IF Len(outputs) = 0 THEN [ok |-> TRUE, shape |-> "unit", types |-> <<>>]
    ELSE IF Len(outputs) = 1
    THEN IF types_expand(outputs[1].kind).ok
         THEN [ok |-> TRUE, shape |-> "single",
               types |-> <<types_expand(outputs[1].kind).type>>]
         ELSE [ok |-> FALSE, shape |-> "none", types |-> <<>>]
    ELSE IF \E i \in DOMAIN outputs : ~types_expand(outputs[i].kind).ok
    THEN [ok |-> FALSE, shape |-> "none", types |-> <<>>]
    ELSE [ok |-> TRUE, shape |-> "tuple",
          types |-> [i \in DOMAIN outputs |-> types_expand(outputs[i].kind).type]]

NoAlias == <<>>

\* A generator whose methods all take the state-changing call path.
expand_function_always_method(f, alias) ==
    LET input == expand_inputs(f.inputs)
        outputs == expand_fn_outputs(f.outputs)
    IN  IF ~input.ok \/ ~outputs.ok
        THEN [ok |-> FALSE]
        ELSE [ok |-> TRUE,
              name |-> IF alias # NoAlias THEN alias
                       ELSE safe_ident(to_snake_case(f.name)),
              params |-> input.params,
              ret |-> [shape |-> outputs.shape, types |-> outputs.types],
              method |-> "method",
              signature |-> fn_signature(f),
              arg |-> expand_inputs_call_arg(f.inputs),
              on_error |-> "expect"]

\* expand_function: the method of one function, named by its alias if it
\* has one; its body is `self.instance.#method(signature, arg).expect(..)`.
expand_function(f, alias) ==
    LET input == expand_inputs(f.inputs)
        outputs == expand_fn_outputs(f.outputs)
    IN  IF ~input.ok \/ ~outputs.ok
        THEN [ok |-> FALSE]
        ELSE [ok |-> TRUE,
              name |-> IF alias # NoAlias THEN alias
                       ELSE safe_ident(to_snake_case(f.name)),
              params |-> input.params,
              ret |-> [shape |-> outputs.shape, types |-> outputs.types],
              method |-> IF f.constant THEN "view_method" ELSE "method",
              signature |-> fn_signature(f),
              arg |-> expand_inputs_call_arg(f.inputs),
              on_error |-> "expect"]

\* aliases.remove(&signature).
AliasFor(als, sig) ==
    IF \E a \in als : a[1] = sig THEN (CHOOSE a \in als : a[1] = sig)[2] ELSE NoAlias

NoSignature == <<<<>>, <<>>>>
MethodsOk(ms) == [kind |-> "Ok", signature |-> NoSignature, methods |-> ms]
MethodsErr(kind, sig) == [kind |-> kind, signature |-> sig, methods |-> <<>>]

\* A generator that never looks at the aliases left over.
methods_expand_ignoring_unused(order, als, keys) ==
    LET fns == [i \in DOMAIN order |->
                  expand_function(order[i], AliasFor(als, fn_signature(order[i])))]
        failed == {i \in DOMAIN order : ~fns[i].ok}
    IN  IF failed # {}
        THEN MethodsErr("ExpandFunction", fn_signature(order[FirstIn(failed)]))
        ELSE MethodsOk(fns)

\* methods::expand: the functions in iteration order, each with its alias
\* removed from the map; the first function that fails to expand ends the
\* pass; then the first key left in the alias map, if any, is reported.
methods_expand(order, als, keys) ==
    LET fns == [i \in DOMAIN order |->
                  expand_function(order[i], AliasFor(als, fn_signature(order[i])))]
        failed == {i \in DOMAIN order : ~fns[i].ok}
        unused == {k \in DOMAIN keys :
                      \A i \in DOMAIN order : fn_signature(order[i]) # keys[k]}
    IN  IF failed # {}
        THEN MethodsErr("ExpandFunction", fn_signature(order[FirstIn(failed)]))
        ELSE IF unused # {}
        THEN MethodsErr("UnknownAlias", keys[FirstIn(unused)])
        ELSE MethodsOk(fns)

MethodsInit ==
    /\ functions \in {fs \in SUBSET FunctionUniverse : Cardinality(fs) <= MaxFunctions}
    /\ funcOrder \in AbiOrders(functions)
    /\ aliases \in {as \in SUBSET AliasUniverse : Cardinality(as) <= MaxAliases}
    /\ aliasOrder \in Perms({a[1] : a \in aliases})
    /\ methods = NotYet
    /\ NamesIdle /\ EventsIdle /\ MacroIdle /\ DataIdle /\ DeployIdle /\ RuntimeIdle /\ IntIdle

\* methods::expand over the context's descriptor and aliases.
ExpandMethods ==
    /\ ~methods.done
    /\ methods' = Done(methods_expand(funcOrder, aliases, aliasOrder))
    /\ UNCHANGED <<functions, funcOrder, aliases, aliasOrder>>
    /\ UNCHANGED <<namesVars, eventVars, macroVars, dataVars, deployVars, runtimeVars, intVars>>

MethodsNext == ExpandMethods

SpecMethods == MethodsInit /\ [][MethodsNext]_vars

AliasSignatures == {a[1] : a \in aliases}
FunctionSignatures == {fn_signature(f) : f \in functions}

(***************************************************************************)
(* C7: the generated method of a function f has exactly Len(f.inputs)      *)
(* parameters in declared order, and returns the unit type for no output,  *)
(* the mapped type for one output and a tuple of the mapped types in       *)
(* declared order for more.                                                *)
(***************************************************************************)
C7_MethodArity ==
    (methods.done /\ methods.val.kind = "Ok") =>
        /\ Len(methods.val.methods) = Len(funcOrder)
        /\ \A i \in DOMAIN funcOrder :
              LET f == funcOrder[i]
                  m == methods.val.methods[i]
              IN  /\ Len(m.params) = Len(f.inputs)
                  /\ \A j \in DOMAIN f.inputs :
                        m.params[j].type = types_expand(f.inputs[j].kind).type
                  /\ Len(f.outputs) = 0 => m.ret = [shape |-> "unit", types |-> <<>>]
                  /\ Len(f.outputs) = 1 =>
                        m.ret = [shape |-> "single",
                                 types |-> <<types_expand(f.outputs[1].kind).type>>]
                  /\ Len(f.outputs) > 1 =>
                        /\ m.ret.shape = "tuple"
                        /\ Len(m.ret.types) = Len(f.outputs)
                        /\ \A j \in DOMAIN f.outputs :
                              m.ret.types[j] = types_expand(f.outputs[j].kind).type

\* Methods were generated for functions with no, one and two outputs.
C7_Witness ==
    /\ methods.done /\ methods.val.kind = "Ok"
    /\ \A n \in 0..2 : \E f \in functions :
          Len(f.outputs) = n /\ Len(f.inputs) = n

(***************************************************************************)
(* C8, as claimed: an alias whose signature is that of no function makes   *)
(* method generation fail with the unknown-alias error naming such a       *)
(* signature, with no output; with every alias signature present the       *)
(* error is not raised.                                                    *)
(***************************************************************************)
C8_UnknownAliasAlwaysReported ==
    methods.done =>
        /\ ~(AliasSignatures \subseteq FunctionSignatures) =>
              /\ methods.val.kind = "UnknownAlias"
              /\ methods.val.signature \in AliasSignatures \ FunctionSignatures
              /\ methods.val.methods = <<>>
        /\ AliasSignatures \subseteq FunctionSignatures =>
              methods.val.kind # "UnknownAlias"

(***************************************************************************)
(* C8, amended: an alias whose signature is that of no function makes      *)
(* method generation fail with no output: with the unknown-alias error     *)
(* naming such a signature when every function expands, and with the       *)
(* error of the first function that fails to expand otherwise; with every  *)
(* alias signature present the unknown-alias error is not raised.          *)
(***************************************************************************)
C8_UnknownAliasReported ==
    methods.done =>
        /\ ~(AliasSignatures \subseteq FunctionSignatures) =>
              /\ methods.val.kind # "Ok"
              /\ methods.val.methods = <<>>
              /\ (\A f \in functions : expand_function(f, NoAlias).ok) =>
                    /\ methods.val.kind = "UnknownAlias"
                    /\ methods.val.signature \in AliasSignatures \ FunctionSignatures
              /\ (\E f \in functions : ~expand_function(f, NoAlias).ok) =>
                    /\ methods.val.kind = "ExpandFunction"
                    /\ methods.val.signature \in FunctionSignatures
        /\ AliasSignatures \subseteq FunctionSignatures =>
              methods.val.kind # "UnknownAlias"

\* Generation over functions that all expand, with a known alias and an
\* unknown one, has reported the unknown alias.
C8_Witness ==
    /\ methods.done
    /\ methods.val.kind = "UnknownAlias"
    /\ functions # {}
    /\ AliasSignatures \cap FunctionSignatures # {}
    /\ AliasSignatures \ FunctionSignatures # {}

(***************************************************************************)
(* C28: in the output of a pass that succeeds the method of every function *)
(* f is named by the alias registered for f's signature if there is one    *)
(* and by the escaped snake case form of f's name otherwise; it takes the  *)
(* read-only call path (view_method) exactly when f is constant and the    *)
(* state-changing one (method) otherwise, passes f's own signature, and    *)
(* forwards the identifiers of its own parameter list, in declared order.  *)
(***************************************************************************)
C28_MethodNamePathAndArguments ==
    (methods.done /\ methods.val.kind = "Ok") =>
        \A i \in DOMAIN funcOrder :
            LET f == funcOrder[i]
                m == methods.val.methods[i]
                registered == {al \in aliases : al[1] = fn_signature(f)}
            IN  /\ registered # {} => \E al \in registered : m.name = al[2]
                /\ registered = {} => m.name = safe_ident(to_snake_case(f.name))
                /\ m.method = "view_method" <=> f.constant
                /\ m.method = "method" <=> ~f.constant
                /\ m.signature = fn_signature(f)
                /\ Len(m.arg) = Len(f.inputs)
                /\ \A j \in DOMAIN f.inputs : m.arg[j] = m.params[j].name

\* Methods were generated for an aliased function that is not constant and
\* takes two parameters, and for a constant function with a reserved name.
C28_Witness ==
    /\ methods.done /\ methods.val.kind = "Ok"
    /\ \E i \in DOMAIN funcOrder :
          /\ funcOrder[i].name = <<"b">>
          /\ methods.val.methods[i].name = <<"m">>
          /\ methods.val.methods[i].method = "method"
          /\ methods.val.methods[i].arg = <<<<"a">>, <<"p", "1">>>>
    /\ \E i \in DOMAIN funcOrder :
          /\ funcOrder[i].name = <<"S", "e", "l", "f">>
          /\ methods.val.methods[i].name = <<"s", "e", "l", "f", "_">>
          /\ methods.val.methods[i].method = "view_method"
          /\ methods.val.methods[i].arg = <<<<"s", "e", "l", "f", "_">>>>
(***************************************************************************)
(* The contract! macro's arguments: derive/src/lib.rs                      *)
(***************************************************************************)
MaxBlocks == 2
MaxEntries == 2

\* Deployment { network_id, address }.
Deployment(id, address) == [network_id |-> id, address |-> address]

DeploymentUniverse ==
    {Deployment(1, "0xA"), Deployment(1, "0xB"), Deployment(4, "0xA")}

\* A parameter as written: `crate = name`, or `deployments { ... }` with
\* its entries in order.
WrittenParameters ==
    {[kind |-> "crate", entries |-> <<>>]}
    \cup {[kind |-> "deployments", entries |-> es] :
             es \in SeqsUpTo(DeploymentUniverse, MaxEntries)}

\* The check of one `deployments` block: the first entry whose network id
\* the block's own HashSet already holds is an error.
DuplicateInBlock(entries) ==
    \E i, j \in DOMAIN entries : i < j /\ entries[i].network_id = entries[j].network_id

\* Parameter::parse.
Parameter_parse(p) ==
    IF p.kind = "deployments" /\ DuplicateInBlock(p.entries)
    THEN [ok |-> FALSE, error |-> "duplicate network ID", parameter |-> p]
    ELSE [ok |-> TRUE, error |-> "none", parameter |-> p]

\* ContractArgs::spanned_parse: the parameters in order (parse_terminated);
\* the first that fails is the error of the whole parse.
spanned_parse(written) ==
    IF \E i \in DOMAIN written : ~Parameter_parse(written[i]).ok
    THEN [ok |-> FALSE, error |-> "duplicate network ID", parameters |-> <<>>]
    ELSE [ok |-> TRUE, error |-> "none",
          parameters |-> [i \in DOMAIN written |-> Parameter_parse(written[i]).parameter]]

\* Builder::add_deployment: the builder's map from network id to address,
\* with the entry inserted.
add_deployment(deployments, d) ==
    [n \in DOMAIN deployments \cup {d.network_id} |->
        IF n = d.network_id THEN d.address ELSE deployments[n]]

RECURSIVE FoldDeployments(_, _)
FoldDeployments(deployments, entries) ==
    IF entries = <<>> THEN deployments
    ELSE FoldDeployments(add_deployment(deployments, Head(entries)), Tail(entries))

\* ContractArgs::into_builder: the parameters applied in order; every
\* entry of every `deployments` parameter is added to the builder.
RECURSIVE into_builder(_, _)
into_builder(deployments, parameters) ==
    IF parameters = <<>> THEN deployments
    ELSE into_builder(
            IF Head(parameters).kind = "deployments"
            THEN FoldDeployments(deployments, Head(parameters).entries)
            ELSE deployments,
            Tail(parameters))

NoDeployments == [n \in {} |-> "0x0"]

MacroInit ==
    /\ macroInput \in SeqsUpTo(WrittenParameters, MaxBlocks)
    /\ parsed = NotYet
    /\ builder = NotYet
    /\ NamesIdle /\ EventsIdle /\ MethodsIdle /\ DataIdle /\ DeployIdle /\ RuntimeIdle /\ IntIdle

\* parse_macro_input!(input as Spanned<ContractArgs>).
ParseArgs ==
    /\ ~parsed.done
    /\ parsed' = Done(spanned_parse(macroInput))
    /\ UNCHANGED <<macroInput, builder, namesVars, eventVars, methodVars, dataVars, deployVars, runtimeVars, intVars>>

\* expand(args): args.into_builder(), reached only with parsed arguments.
IntoBuilder ==
    /\ parsed.done /\ parsed.val.ok
    /\ ~builder.done
    /\ builder' = Done(into_builder(NoDeployments, parsed.val.parameters))
    /\ UNCHANGED <<macroInput, parsed, namesVars, eventVars, methodVars, dataVars, deployVars, runtimeVars, intVars>>

MacroNext == ParseArgs \/ IntoBuilder

SpecMacro == MacroInit /\ [][MacroNext]_vars

\* All deployment entries of the invocation, by block and position.
WrittenEntries ==
    UNION {{<<b, i>> : i \in DOMAIN macroInput[b].entries} : b \in DOMAIN macroInput}
SharedNetworkId ==
    \E x, y \in WrittenEntries :
        /\ x # y
        /\ macroInput[x[1]].entries[x[2]].network_id
             = macroInput[y[1]].entries[y[2]].network_id

(***************************************************************************)
(* C9, as claimed: two deployment entries of one invocation that share a   *)
(* network id, in one `deployments` block or in two, make configuration    *)
(* fail with the duplicate-network-id error, and no builder is produced.   *)
(***************************************************************************)
C9_DuplicateNetworkIdRejected ==
    SharedNetworkId =>
        /\ parsed.done =>
              /\ ~parsed.val.ok
              /\ parsed.val.error = "duplicate network ID"
        /\ ~builder.done

(***************************************************************************)
(* Event data types and filter builders: events.rs expand_data_type and    *)
(* expand_builder_type, and the generated Detokenize::from_tokens          *)
(***************************************************************************)
MaxEventParams == 3
MaxTokens == 3

EventParam(name, kind, indexed) == [name |-> name, kind |-> kind, indexed |-> indexed]

\* EventParam { name, kind, indexed }: unnamed and named parameters, indexed
\* and not, one whose name is a reserved word in another case, and one
\* whose type has no mapping.
EventParamUniverse ==
    { EventParam(<<>>, "address", TRUE),
      EventParam(<<>>, "uint256", FALSE),
      EventParam(<<"a">>, "address", TRUE),
      EventParam(<<"b">>, "uint256", FALSE),
      EventParam(<<"S", "e", "l", "f">>, "uint256", TRUE),
      EventParam(<<"c">>, "uint512", FALSE) }

\* The events handed to the expansions: any parameter list of an ABI (no
\* name declared twice), standard or anonymous.
ParamNames(params) == [i \in DOMAIN params |-> params[i].name]
NamedEvents ==
    { [name |-> <<"A", "b">>, anonymous |-> an, inputs |-> ins] :
        an \in BOOLEAN,
        ins \in {l \in SeqsUpTo(EventParamUniverse, MaxEventParams) :
                    DistinctNamed(ParamNames(l))} }

\* util::expand_input_name: p{index} for an empty name, the snake case
\* form otherwise, escaped when it is a reserved word.
util_expand_input_name(index, name) ==
    safe_ident(IF name = <<>> THEN <<"p">> \o FormatIndex(index)
               ELSE to_snake_case(name))

\* expand_params: a (name, type) pair per parameter, in order; the first
\* type without a mapping fails the whole list.
expand_params(e) ==
    IF \E i \in DOMAIN e.inputs : ~types_expand(e.inputs[i].kind).ok
    THEN [ok |-> FALSE, params |-> <<>>]
    ELSE [ok |-> TRUE,
          params |-> [i \in DOMAIN e.inputs |->
                        [name |-> util_expand_input_name(i - 1, e.inputs[i].name),
                         ty |-> types_expand(e.inputs[i].kind).type]]]

\* expand_data_struct: `struct Name { pub name: ty, ... }` and the
\* construction `Name { name, ... }`.
expand_data_struct(name, params) ==
    [ definition |-> [repr |-> "struct", name |-> name,
                      fields |-> [i \in DOMAIN params |->
                                    [name |-> params[i].name, ty |-> params[i].ty]]],
      construction |-> [repr |-> "struct", name |-> name,
                        param_names |-> [i \in DOMAIN params |-> params[i].name]] ]

\* expand_data_tuple: `struct Name(pub ty, ...);` and the construction
\* `Name(name, ...)`.
expand_data_tuple(name, params) ==
    [ definition |-> [repr |-> "tuple", name |-> name,
                      fields |-> [i \in DOMAIN params |-> [ty |-> params[i].ty]]],
      construction |-> [repr |-> "tuple", name |-> name,
                        param_names |-> [i \in DOMAIN params |-> params[i].name]] ]

\* A data type that is a tuple as soon as one parameter is unnamed.
expand_data_type_tuple_if_any_unnamed(e) ==
    LET params == expand_params(e)
        event_name == expand_struct_name(e)
        any_anonymous_field == \E i \in DOMAIN e.inputs : e.inputs[i].name = <<>>
        data_type == IF any_anonymous_field
                     THEN expand_data_tuple(event_name, params.params)
                     ELSE expand_data_struct(event_name, params.params)
    IN  IF ~params.ok THEN [ok |-> FALSE]
        ELSE [ok |-> TRUE,
              event_name |-> event_name,
              signature |-> signature(e),
              abi_signature |-> abi_signature(e),
              definition |-> data_type.definition,
              construction |-> data_type.construction,
              params_len |-> Len(params.params),
              read_param_token |-> params.params]

\* expand_data_type: the data type of one event, a tuple when all its
\* parameters are unnamed and a structure otherwise, with the pieces of
\* its from_tokens: the expected count, one `let name = ty::from_token(..)?`
\* per parameter, and the construction.
expand_data_type(e) ==
    LET params == expand_params(e)
        event_name == expand_struct_name(e)
        all_anonymous_fields == \A i \in DOMAIN e.inputs : e.inputs[i].name = <<>>
        data_type == IF all_anonymous_fields
                     THEN expand_data_tuple(event_name, params.params)
                     ELSE expand_data_struct(event_name, params.params)
    IN  IF ~params.ok THEN [ok |-> FALSE]
        ELSE [ok |-> TRUE,
              event_name |-> event_name,
              signature |-> signature(e),
              abi_signature |-> abi_signature(e),
              definition |-> data_type.definition,
              construction |-> data_type.construction,
              params_len |-> Len(params.params),
              read_param_token |-> params.params]

\* format!("topic{}", topic_index).
TopicIdent(topic_index) == <<"t", "o", "p", "i", "c">> \o FormatIndex(topic_index)

\* expand_builder_topic_filter: the filter method of one indexed parameter,
\* named after the parameter, or after the topic when it has no name; the
\* method sets the builder's topic{topic_index}.
expand_builder_topic_filter(topic_index, param) ==
    [ doc |-> param.name,
      topic |-> TopicIdent(topic_index),
      name |-> IF param.name = <<>> THEN TopicIdent(topic_index)
               ELSE safe_ident(param.name),
      ty |-> types_expand(param.kind).type ]

\* The positions of the indexed parameters, in declaration order.
RECURSIVE IndexedPositions(_, _)
IndexedPositions(params, i) ==
    IF i > Len(params) THEN <<>>
    ELSE IF params[i].indexed THEN <<i>> \o IndexedPositions(params, i + 1)
    ELSE IndexedPositions(params, i + 1)

\* Filter methods numbered by the parameter's position among all the
\* parameters.
expand_builder_topic_filters_by_position(e) ==
    LET indexed == IndexedPositions(e.inputs, 1)
    IN  IF \E k \in DOMAIN indexed : ~types_expand(e.inputs[indexed[k]].kind).ok
        THEN [ok |-> FALSE, topic_filters |-> <<>>]
        ELSE [ok |-> TRUE,
              topic_filters |-> [k \in DOMAIN indexed |->
                  expand_builder_topic_filter(indexed[k] - 1, e.inputs[indexed[k]])]]

\* expand_builder_topic_filters: inputs.filter(indexed).enumerate(), one
\* filter method each; the first type without a mapping fails the list.
expand_builder_topic_filters(e) ==
    LET indexed == IndexedPositions(e.inputs, 1)
    IN  IF \E k \in DOMAIN indexed : ~types_expand(e.inputs[indexed[k]].kind).ok
        THEN [ok |-> FALSE, topic_filters |-> <<>>]
        ELSE [ok |-> TRUE,
              topic_filters |-> [k \in DOMAIN indexed |->
                  expand_builder_topic_filter(k - 1, e.inputs[indexed[k]])]]

\* expand_builder_name.
expand_builder_name(e) == to_pascal_case(e.name) \o <<"B", "u", "i", "l", "d", "e", "r">>

\* expand_builder_type: the builder of one event with its topic filters
\* and its stream(), which is `(self.0).stream().expect(..)`.
expand_builder_type(e) ==
    LET topic_filters == expand_builder_topic_filters(e)
    IN  IF ~topic_filters.ok THEN [ok |-> FALSE]
        ELSE [ok |-> TRUE,
              builder_name |-> expand_builder_name(e),
              event_name |-> expand_struct_name(e),
              topic_filters |-> topic_filters.topic_filters,
              stream_on_error |-> "expect"]

\* Token: a kind and a value.
Token(kind, value) == [kind |-> kind, value |-> value]
TokenUniverse ==
    {Token("address", "x"), Token("address", "y"), Token("uint256", "x")}

\* Tokenizable::from_token for the mapped type ty: the token's value when
\* the token is of the type's kind, an error otherwise.
from_token(ty, token) ==
    IF ty = <<"T", token.kind>> THEN [ok |-> TRUE, value |-> token.value]
    ELSE [ok |-> FALSE, value |-> "none"]

DecodeOk(repr, fields) == [kind |-> "Ok", error |-> "none", repr |-> repr, fields |-> fields]
DecodeErr(error) == [kind |-> "Err", error |-> error, repr |-> "none", fields |-> <<>>]

\* The value a name is bound to after the `let`s: that of the last `let`
\* of that name.
Binding(reads, toks, name) ==
    LET last == CHOOSE i \in DOMAIN reads :
                    /\ reads[i].name = name
                    /\ \A j \in DOMAIN reads : reads[j].name = name => j <= i
    IN  from_token(reads[last].ty, toks[last]).value

\* A from_tokens without the length check, reading the tokens it needs.
from_tokens_unchecked_len(dt, toks) ==
    LET reads == dt.read_param_token
        failed == {i \in DOMAIN reads : ~from_token(reads[i].ty, toks[i]).ok}
    IN  IF Len(toks) < dt.params_len
        THEN DecodeErr("InvalidOutputType")
        ELSE IF failed # {}
        THEN DecodeErr("from_token")
        ELSE DecodeOk(dt.construction.repr,
                      [i \in DOMAIN dt.construction.param_names |->
                          Binding(reads, toks, dt.construction.param_names[i])])

\* The generated from_tokens: the length check, then one conversion per
\* parameter in order, each ending the routine when it fails, then the
\* construction from the bound names.
from_tokens(dt, toks) ==
    LET reads == dt.read_param_token
        failed == {i \in DOMAIN reads : ~from_token(reads[i].ty, toks[i]).ok}
    IN  IF Len(toks) # dt.params_len
        THEN DecodeErr("InvalidOutputType")
        ELSE IF failed # {}
        THEN DecodeErr("from_token")
        ELSE DecodeOk(dt.construction.repr,
                      [i \in DOMAIN dt.construction.param_names |->
                          Binding(reads, toks, dt.construction.param_names[i])])

\* The data type compiles: a structure's field names are distinct.
DataTypeCompiles(dt) ==
    dt.definition.repr = "struct" =>
        IsInjective([i \in DOMAIN dt.definition.fields |-> dt.definition.fields[i].name])

DataInit ==
    /\ event \in NamedEvents
    /\ dataType = NotYet /\ builderType = NotYet
    /\ tokens = <<>> /\ decoded = NotYet
    /\ NamesIdle /\ EventsIdle /\ MethodsIdle /\ MacroIdle
    /\ DeployIdle /\ RuntimeIdle /\ IntIdle

\* expand_structs_mod's call of expand_data_type for the event.
ExpandDataType ==
    /\ ~dataType.done
    /\ dataType' = Done(expand_data_type(event))
    /\ UNCHANGED <<event, builderType, tokens, decoded>>
    /\ UNCHANGED <<namesVars, eventVars, methodVars, macroVars>>
    /\ UNCHANGED <<deployVars, runtimeVars, intVars>>

\* expand_filters' call of expand_builder_type, for a standard event.
ExpandBuilderType ==
    /\ ~event.anonymous
    /\ ~builderType.done
    /\ builderType' = Done(expand_builder_type(event))
    /\ UNCHANGED <<event, dataType, tokens, decoded>>
    /\ UNCHANGED <<namesVars, eventVars, methodVars, macroVars>>
    /\ UNCHANGED <<deployVars, runtimeVars, intVars>>

\* Detokenize::from_tokens(tokens) of the compiled data type.
FromTokens ==
    /\ dataType.done /\ dataType.val.ok
    /\ DataTypeCompiles(dataType.val)
    /\ ~decoded.done
    /\ \E toks \in SeqsUpTo(TokenUniverse, MaxTokens) :
          /\ tokens' = toks
          /\ decoded' = Done(from_tokens(dataType.val, toks))
    /\ UNCHANGED <<event, dataType, builderType>>
    /\ UNCHANGED <<namesVars, eventVars, methodVars, macroVars>>
    /\ UNCHANGED <<deployVars, runtimeVars, intVars>>

DataNext == ExpandDataType \/ ExpandBuilderType \/ FromTokens

SpecEventData == DataInit /\ [][DataNext]_vars

(***************************************************************************)
(* C11: the data type of an event is a tuple exactly when every parameter  *)
(* name is empty and a structure otherwise; a structure has one field per  *)
(* parameter, named by the parameter's resolved name, p{i} for the         *)
(* parameter at position i whose name is empty; in both representations    *)
(* the fields are as many as the parameters and in their order.            *)
(***************************************************************************)
C11_DataTypeRepresentation ==
    (dataType.done /\ dataType.val.ok) =>
        LET def == dataType.val.definition
            ins == event.inputs
        IN  /\ def.repr = "tuple" <=> \A i \in DOMAIN ins : ins[i].name = <<>>
            /\ def.repr = "struct" <=> \E i \in DOMAIN ins : ins[i].name # <<>>
            /\ Len(def.fields) = Len(ins)
            /\ \A i \in DOMAIN ins :
                  /\ def.fields[i].ty = types_expand(ins[i].kind).type
                  /\ def.repr = "struct" =>
                        /\ ins[i].name = <<>> =>
                              def.fields[i].name = <<"p">> \o FormatIndex(i - 1)
                        /\ ins[i].name # <<>> =>
                              LET sn == to_snake_case(ins[i].name)
                              IN  def.fields[i].name =
                                      IF sn \in Reserved THEN sn \o <<"_">> ELSE sn

\* A structure was generated for an event with an unnamed parameter after
\* a named one, and a tuple for an event with parameters.
C11_Witness ==
    /\ dataType.done /\ dataType.val.ok
    /\ dataType.val.definition.repr = "struct"
    /\ Len(event.inputs) = 3
    /\ event.inputs[1].name # <<>>
    /\ event.inputs[2].name = <<>>
    /\ dataType.val.definition.fields[2].name = <<"p", "1">>

(***************************************************************************)
(* C12: the builder of a standard event has one topic filter method per    *)
(* indexed parameter and none for the others; the method of the k-th       *)
(* indexed parameter (from 0, in declaration order) sets topic k, however  *)
(* many parameters that are not indexed come before it.                    *)
(***************************************************************************)
C12_TopicFilterPerIndexedParameter ==
    (builderType.done /\ builderType.val.ok) =>
        LET filters == builderType.val.topic_filters
            ins == event.inputs
            IndexedBefore(i) == Cardinality({j \in 1..(i - 1) : ins[j].indexed})
        IN  /\ Len(filters) = Cardinality({i \in DOMAIN ins : ins[i].indexed})
            /\ \A i \in DOMAIN ins :
                  ins[i].indexed =>
                      LET f == filters[IndexedBefore(i) + 1]
                      IN  /\ f.topic = TopicIdent(IndexedBefore(i))
                          /\ f.doc = ins[i].name
                          /\ f.ty = types_expand(ins[i].kind).type

\* A builder was generated for an event whose second indexed parameter
\* comes after a parameter that is not indexed.
C12_Witness ==
    /\ builderType.done /\ builderType.val.ok
    /\ Len(event.inputs) = 3
    /\ event.inputs[1].indexed
    /\ ~event.inputs[2].indexed
    /\ event.inputs[3].indexed
    /\ builderType.val.topic_filters[2].topic = <<"t", "o", "p", "i", "c", "1">>

(***************************************************************************)
(* C13: from_tokens with a token list whose length is not the event's      *)
(* parameter count returns the token count error and no record; with a     *)
(* list of that length it returns the record whose field i holds token i   *)
(* when every token converts to the type of its parameter, and an error    *)
(* and no record when some token does not.                                 *)
(***************************************************************************)
C13_FromTokens ==
    decoded.done =>
        LET ins == event.inputs
            Converts(i) == tokens[i].kind = ins[i].kind
        IN  /\ Len(tokens) # Len(ins) =>
                  /\ decoded.val.kind = "Err"
                  /\ decoded.val.error = "InvalidOutputType"
                  /\ decoded.val.fields = <<>>
            /\ (Len(tokens) = Len(ins) /\ \A i \in DOMAIN ins : Converts(i)) =>
                  /\ decoded.val.kind = "Ok"
                  /\ Len(decoded.val.fields) = Len(ins)
                  /\ \A i \in DOMAIN ins : decoded.val.fields[i] = tokens[i].value
            /\ (Len(tokens) = Len(ins) /\ \E i \in DOMAIN ins : ~Converts(i)) =>
                  /\ decoded.val.kind = "Err"
                  /\ decoded.val.fields = <<>>

\* A structure of three fields was decoded from three tokens, two of them
\* of one kind with different values.
C13_Witness ==
    /\ decoded.done /\ decoded.val.kind = "Ok"
    /\ dataType.val.definition.repr = "struct"
    /\ Len(tokens) = 3
    /\ tokens[1].kind = tokens[3].kind
    /\ tokens[1].value # tokens[3].value
    /\ decoded.val.fields[1] # decoded.val.fields[3]


(***************************************************************************)
(* DeploymentGenerator: deployment.rs                                      *)
(***************************************************************************)
MaxSegments == 3

\* Bytecode: code, and library placeholders by name; the empty bytecode has
\* neither.
Code == [kind |-> "code", name |-> <<>>]
Placeholder(name) == [kind |-> "library", name |-> name]
SegmentUniverse ==
    {Code, Placeholder(<<"A">>), Placeholder(<<"S", "e", "l", "f">>)}

\* Bytecode::undefined_libraries: the names of the placeholders, each once,
\* in the order of their first occurrence.
RECURSIVE FirstOccurrences(_, _)
FirstOccurrences(bytecode, seen) ==
    IF bytecode = <<>> THEN <<>>
    ELSE IF Head(bytecode).kind # "library" \/ Head(bytecode).name \in seen
    THEN FirstOccurrences(Tail(bytecode), seen)
    ELSE <<Head(bytecode).name>>
            \o FirstOccurrences(Tail(bytecode), seen \cup {Head(bytecode).name})
undefined_libraries(bytecode) == FirstOccurrences(bytecode, {})

\* The name of every placeholder, repeated as often as it occurs.
RECURSIVE AllOccurrences(_)
AllOccurrences(bytecode) ==
    IF bytecode = <<>> THEN <<>>
    ELSE IF Head(bytecode).kind # "library" THEN AllOccurrences(Tail(bytecode))
    ELSE <<Head(bytecode).name>> \o AllOccurrences(Tail(bytecode))

\* abi.constructor(): none, one with a parameter, and one with a parameter
\* whose type has no mapping.
NoConstructor == [present |-> FALSE, inputs |-> <<>>]
Constructor(ins) == [present |-> TRUE, inputs |-> ins]
ConstructorUniverse ==
    { NoConstructor,
      Constructor(<<FnParam(<<"a">>, "address")>>),
      Constructor(<<FnParam(<<"a">>, "uint512")>>) }

\* contract.networks: the descriptor's map from network id to address.
DescriptorNetworks ==
    { NoDeployments, 1 :> "0xC", (1 :> "0xC") @@ (4 :> "0xC") }

\* cx.networks: the manual deployments, as into_builder leaves them for
\* the parameter lists that parse.
ManualNetworks ==
    { into_builder(NoDeployments, spanned_parse(w).parameters) :
        w \in {v \in SeqsUpTo(WrittenParameters, MaxBlocks) : spanned_parse(v).ok} }

ContractNames == {"DeployedContract", "Contract"}

Contexts ==
    [ contract : [ name : ContractNames,
                   bytecode : SeqsUpTo(SegmentUniverse, MaxSegments),
                   networks : DescriptorNetworks,
                   constructor : ConstructorUniverse ],
      networks : ManualNetworks ]

\* An accessor that is omitted whenever the descriptor has no network.
expand_deployed_descriptor_only(c) ==
    IF c.contract.networks = NoDeployments
    THEN [emitted |-> FALSE,
          printed |-> IF c.contract.name = "DeployedContract" /\ c.networks = NoDeployments
                      THEN 2 ELSE 0]
    ELSE [emitted |-> TRUE, printed |-> 0]

\* An accessor that is omitted for an empty bytecode as well.
expand_deployed_needs_bytecode(c) ==
    IF c.contract.networks = NoDeployments /\ c.networks = NoDeployments
    THEN [emitted |-> FALSE,
          printed |-> IF c.contract.name = "DeployedContract" THEN 2 ELSE 0]
    ELSE [emitted |-> c.contract.bytecode # <<>>, printed |-> 0]

\* expand_deployed: nothing when the descriptor's networks and the manual
\* ones are both empty (and then two lines are printed for the contract
\* named DeployedContract); the `deployed` accessor otherwise.
expand_deployed(c) ==
    IF c.contract.networks = NoDeployments /\ c.networks = NoDeployments
    THEN [emitted |-> FALSE,
          printed |-> IF c.contract.name = "DeployedContract" THEN 2 ELSE 0]
    ELSE [emitted |-> TRUE, printed |-> 0]

NoDeploy ==
    [ ok |-> TRUE, lib_struct |-> FALSE, lib_struct_fields |-> <<>>,
      builder |-> FALSE, lib_input |-> FALSE, input |-> <<>>, arg |-> <<>>,
      link |-> <<>>, link_on_error |-> "none", builder_on_error |-> "none",
      deploy_impl |-> FALSE ]
DeployErr ==
    [ ok |-> FALSE, lib_struct |-> FALSE, lib_struct_fields |-> <<>>,
      builder |-> FALSE, lib_input |-> FALSE, input |-> <<>>, arg |-> <<>>,
      link |-> <<>>, link_on_error |-> "none", builder_on_error |-> "none",
      deploy_impl |-> FALSE ]

\* The (name, field) pair of a library.
LibraryField(name) == [name |-> name, field |-> safe_ident(to_snake_case(name))]

\* The builder, the Libraries structure and the Deploy implementation from
\* the constructor and the libraries; the builder links every library with
\* `bytecode.link(name, libs.field).expect(..)` and ends with
\* `DeployBuilder::new(web3, bytecode, arg).expect(..)`.
DeployFrom(constructor, libs) ==
    LET input == IF constructor.present THEN expand_inputs(constructor.inputs)
                 ELSE [ok |-> TRUE, params |-> <<>>]
        arg == IF constructor.present THEN expand_inputs_call_arg(constructor.inputs)
               ELSE <<>>
    IN  IF ~input.ok THEN DeployErr
        ELSE [ ok |-> TRUE,
               lib_struct |-> libs # <<>>,
               lib_struct_fields |-> libs,
               builder |-> TRUE,
               lib_input |-> libs # <<>>,
               input |-> input.params,
               arg |-> arg,
               link |-> libs,
               link_on_error |-> "expect",
               builder_on_error |-> "expect",
               deploy_impl |-> TRUE ]

\* A generator that does not look at the bytecode being empty.
expand_deploy_for_any_bytecode(c) ==
    DeployFrom(c.contract.constructor,
               [i \in DOMAIN undefined_libraries(c.contract.bytecode) |->
                   LibraryField(undefined_libraries(c.contract.bytecode)[i])])

\* A generator that emits the link statement of the first library only.
expand_deploy_first_link_only(c) ==
    LET deploy == IF c.contract.bytecode = <<>> THEN NoDeploy
                  ELSE DeployFrom(c.contract.constructor,
                           [i \in DOMAIN undefined_libraries(c.contract.bytecode) |->
                               LibraryField(undefined_libraries(c.contract.bytecode)[i])])
    IN  IF deploy.link = <<>> THEN deploy
        ELSE [deploy EXCEPT !.link = <<Head(deploy.link)>>]

\* A generator with a field per placeholder occurrence.
expand_deploy_per_occurrence(c) ==
    IF c.contract.bytecode = <<>> THEN NoDeploy
    ELSE DeployFrom(c.contract.constructor,
                    [i \in DOMAIN AllOccurrences(c.contract.bytecode) |->
                        LibraryField(AllOccurrences(c.contract.bytecode)[i])])

\* expand_deploy: nothing for an empty bytecode; otherwise the constructor
\* inputs (their type error ends the pass), the Libraries structure with a
\* field per undefined library and the `libs` parameter when there is one,
\* the builder with its links, and the Deploy implementation.
expand_deploy(c) ==
    IF c.contract.bytecode = <<>> THEN NoDeploy
    ELSE DeployFrom(c.contract.constructor,
                    [i \in DOMAIN undefined_libraries(c.contract.bytecode) |->
                        LibraryField(undefined_libraries(c.contract.bytecode)[i])])

\* deployment::expand: expand_deployed, then expand_deploy, whose error is
\* the error of the pass.
deployment_expand(c) ==
    LET deployed == expand_deployed(c)
        deploy == expand_deploy(c)
    IN  [ output |-> IF ~deploy.ok THEN [ok |-> FALSE, deployed |-> FALSE, deploy |-> DeployErr]
                     ELSE [ok |-> TRUE, deployed |-> deployed.emitted, deploy |-> deploy],
          printed |-> deployed.printed ]

\* A merge in which the descriptor's entry wins.
raw_contract_descriptor_first(c) ==
    [n \in DOMAIN c.contract.networks \cup DOMAIN c.networks |->
        IF n \in DOMAIN c.contract.networks THEN c.contract.networks[n]
        ELSE c.networks[n]]

\* Contract::raw_contract(): the descriptor with every manual deployment
\* inserted into its networks.
raw_contract(c) ==
    [n \in DOMAIN c.contract.networks \cup DOMAIN c.networks |->
        IF n \in DOMAIN c.networks THEN c.networks[n]
        ELSE c.contract.networks[n]]

\* Instance::deployed(web3, contract) on the network with id n.
Instance_deployed(networks, n) ==
    IF n \in DOMAIN networks THEN [ok |-> TRUE, address |-> networks[n]]
    ELSE [ok |-> FALSE, address |-> "none"]

\* The addresses a caller supplies for the libraries.
Addresses == {"0xL1", "0xL2"}

\* A placeholder after Bytecode::link: the address in its place.
Linked(address) == [kind |-> "address", name |-> <<address>>]

\* Bytecode::link(name, address): every placeholder of that name becomes
\* the address; an error when the bytecode has no such placeholder.
Bytecode_link(bytecode, name, address) ==
    IF \A i \in DOMAIN bytecode : bytecode[i] # Placeholder(name)
    THEN [ok |-> FALSE, bytecode |-> bytecode]
    ELSE [ok |-> TRUE,
          bytecode |-> [i \in DOMAIN bytecode |->
                           IF bytecode[i] = Placeholder(name) THEN Linked(address)
                           ELSE bytecode[i]]]

\* DeployBuilder::new(web3, bytecode, args): the unresolved-library
\* failure when a placeholder is still present.
DeployBuilder_new(bytecode) ==
    IF \E i \in DOMAIN bytecode : bytecode[i].kind = "library"
    THEN "UnresolvedLibrary" ELSE "Ok"

\* The body of the generated builder, after `let mut bytecode = bytecode`:
\* the link statements in order, each ended by .expect(..), then
\* DeployBuilder::new(..).expect(..).  `handed` is the bytecode given to
\* DeployBuilder::new, if the body gets that far.
RECURSIVE builder_body(_, _, _)
builder_body(link, bytecode, libs) ==
    IF link = <<>>
    THEN [ outcome |-> IF DeployBuilder_new(bytecode) = "Ok" THEN "builder" ELSE "panic",
           new |-> DeployBuilder_new(bytecode),
           handed |-> Done(bytecode) ]
    ELSE LET linked == Bytecode_link(bytecode, Head(link).name, libs[Head(link).field])
         IN  IF ~linked.ok THEN [outcome |-> "panic", new |-> "none", handed |-> NotYet]
             ELSE builder_body(Tail(link), linked.bytecode, libs)

\* The Libraries values a caller can pass: an address for every field.
LibrariesValues(deploy) ==
    [{deploy.lib_struct_fields[i].field : i \in DOMAIN deploy.lib_struct_fields} -> Addresses]

\* The network ids a provider can report: those of the maps, and another.
NetworkIds == {1, 4, 5}

DeployInit ==
    /\ cx \in Contexts
    /\ deployment = NotYet
    /\ stdout = 0
    /\ lookup = NotYet
    /\ built = NotYet
    /\ NamesIdle /\ EventsIdle /\ MethodsIdle /\ MacroIdle /\ DataIdle /\ RuntimeIdle /\ IntIdle

\* deployment::expand(cx).
ExpandDeployment ==
    /\ ~deployment.done
    /\ deployment' = Done(deployment_expand(cx).output)
    /\ stdout' = stdout + deployment_expand(cx).printed
    /\ UNCHANGED <<cx, lookup, built>>
    /\ UNCHANGED <<namesVars, eventVars, methodVars, macroVars, dataVars, runtimeVars, intVars>>

\* The generated Contract::deployed(web3), the provider reporting network n.
Deployed ==
    /\ deployment.done /\ deployment.val.ok /\ deployment.val.deployed
    /\ ~lookup.done /\ ~built.done
    /\ \E n \in NetworkIds :
          lookup' = Done([network_id |-> n,
                          result |-> Instance_deployed(raw_contract(cx), n)])
    /\ UNCHANGED <<cx, deployment, stdout, built>>
    /\ UNCHANGED <<namesVars, eventVars, methodVars, macroVars, dataVars, runtimeVars, intVars>>

\* The generated Contract::builder(web3, libs, ..) is called; the bytecode
\* is raw_contract().bytecode, the one the generator saw.
Builder ==
    /\ deployment.done /\ deployment.val.ok /\ deployment.val.deploy.builder
    /\ ~built.done /\ ~lookup.done
    /\ \E libs \in LibrariesValues(deployment.val.deploy) :
          built' = Done([libs |-> libs,
                         run |-> builder_body(deployment.val.deploy.link,
                                              cx.contract.bytecode, libs)])
    /\ UNCHANGED <<cx, deployment, stdout, lookup>>
    /\ UNCHANGED <<namesVars, eventVars, methodVars, macroVars, dataVars, runtimeVars, intVars>>

DeployNext == ExpandDeployment \/ Deployed \/ Builder

SpecDeploy == DeployInit /\ [][DeployNext]_vars

(***************************************************************************)
(* C15: with an empty bytecode no builder, no Libraries structure and no   *)
(* Deploy implementation are emitted, whatever the constructor is (the     *)
(* pass succeeds even when the constructor's types have no mapping); with  *)
(* a bytecode that is not empty a pass that succeeds emits the builder and *)
(* the Deploy implementation.                                              *)
(***************************************************************************)
C15_EmptyBytecodeNoDeploy ==
    deployment.done =>
        LET deploy == deployment.val.deploy
        IN  /\ cx.contract.bytecode = <<>> =>
                  /\ deployment.val.ok
                  /\ ~deploy.builder
                  /\ ~deploy.lib_struct /\ deploy.lib_struct_fields = <<>>
                  /\ ~deploy.lib_input
                  /\ ~deploy.deploy_impl
            /\ (cx.contract.bytecode # <<>> /\ deployment.val.ok) =>
                  /\ deploy.builder
                  /\ deploy.deploy_impl
            /\ deployment.val.ok <=>
                  \/ cx.contract.bytecode = <<>>
                  \/ \A i \in DOMAIN cx.contract.constructor.inputs :
                        types_expand(cx.contract.constructor.inputs[i].kind).ok

\* The generator has run for an empty bytecode and a constructor whose
\* parameter type has no mapping.
C15_Witness ==
    /\ deployment.done /\ deployment.val.ok
    /\ cx.contract.bytecode = <<>>
    /\ cx.contract.constructor.present
    /\ ~types_expand(cx.contract.constructor.inputs[1].kind).ok

(***************************************************************************)
(* C16, as claimed: with an empty bytecode the whole output of             *)
(* deployment::expand is empty, the `deployed` accessor included, whatever *)
(* the descriptor's networks and the manual deployments are.               *)
(***************************************************************************)
C16_EmptyBytecodeEmptyOutput ==
    (deployment.done /\ cx.contract.bytecode = <<>>) =>
        /\ ~deployment.val.deployed
        /\ ~deployment.val.deploy.builder
        /\ ~deployment.val.deploy.lib_struct
        /\ ~deployment.val.deploy.deploy_impl

(***************************************************************************)
(* C16, amended: with an empty bytecode the deploy part of the output      *)
(* (builder, Libraries structure, Deploy implementation) is empty, and the *)
(* `deployed` accessor is emitted exactly when the descriptor's networks   *)
(* or the manual deployments have an entry.                                *)
(***************************************************************************)
C16_EmptyBytecodeKeepsDeployed ==
    (deployment.done /\ cx.contract.bytecode = <<>>) =>
        /\ deployment.val.ok
        /\ ~deployment.val.deploy.builder
        /\ ~deployment.val.deploy.lib_struct
        /\ ~deployment.val.deploy.deploy_impl
        /\ deployment.val.deployed <=>
              (cx.contract.networks # NoDeployments \/ cx.networks # NoDeployments)

\* The generator has emitted the accessor for an empty bytecode.
C16_Witness ==
    /\ deployment.done
    /\ cx.contract.bytecode = <<>>
    /\ cx.contract.networks # NoDeployments
    /\ deployment.val.deployed

(***************************************************************************)
(* C17: a pass that succeeds omits the `deployed` accessor exactly when    *)
(* the descriptor's networks and the manual deployments are both empty,    *)
(* and emits it when either has an entry.                                  *)
(***************************************************************************)
C17_DeployedIffSomeNetwork ==
    (deployment.done /\ deployment.val.ok) =>
        /\ (cx.contract.networks = NoDeployments /\ cx.networks = NoDeployments)
              => ~deployment.val.deployed
        /\ (cx.contract.networks # NoDeployments \/ cx.networks # NoDeployments)
              => deployment.val.deployed

\* The accessor was emitted for a descriptor without networks, for a manual
\* deployment.
C17_Witness ==
    /\ deployment.done /\ deployment.val.ok
    /\ cx.contract.networks = NoDeployments
    /\ cx.networks # NoDeployments
    /\ deployment.val.deployed

C19_LibrariesFields ==
    (deployment.done /\ deployment.val.ok /\ cx.contract.bytecode # <<>>) =>
        LET bytecode == cx.contract.bytecode
            fields == deployment.val.deploy.lib_struct_fields
            names == {bytecode[i].name : i \in {j \in DOMAIN bytecode :
                                                  bytecode[j].kind = "library"}}
            First(name) == CHOOSE i \in DOMAIN bytecode :
                              /\ bytecode[i].kind = "library" /\ bytecode[i].name = name
                              /\ \A j \in 1..(i - 1) :
                                    ~(bytecode[j].kind = "library" /\ bytecode[j].name = name)
        IN  /\ Len(fields) = Cardinality(names)
            /\ {fields[i].name : i \in DOMAIN fields} = names
            /\ \A i, j \in DOMAIN fields :
                  i < j => First(fields[i].name) < First(fields[j].name)
            /\ \A i \in DOMAIN fields :
                  fields[i].field = safe_ident(to_snake_case(fields[i].name))
            /\ deployment.val.deploy.lib_struct <=> Cardinality(names) > 0
            /\ deployment.val.deploy.lib_input <=> Cardinality(names) > 0

\* Two fields were emitted for a bytecode in which one of two placeholder
\* names occurs twice.
C19_Witness ==
    /\ deployment.done /\ deployment.val.ok
    /\ Len(cx.contract.bytecode) = 3
    /\ \A i \in 1..3 : cx.contract.bytecode[i].kind = "library"
    /\ cx.contract.bytecode[1] = cx.contract.bytecode[3]
    /\ Len(deployment.val.deploy.lib_struct_fields) = 2

\* The bytecode holds no placeholder.
FullyLinked(bytecode) == \A i \in DOMAIN bytecode : bytecode[i].kind # "library"

(***************************************************************************)
(* C26: in the generated builder every library placeholder of the bytecode *)
(* is substituted with the address supplied for it in the Libraries value  *)
(* before the bytecode is handed to DeployBuilder::new: the bytecode       *)
(* handed over holds no placeholder, every link succeeds, and no builder   *)
(* is returned for a bytecode with a placeholder still present (that is    *)
(* the unresolved-library failure of DeployBuilder::new).                  *)
(***************************************************************************)
C26_EveryPlaceholderLinked ==
    built.done =>
        LET run == built.val.run
            bytecode == cx.contract.bytecode
        IN  /\ run.handed.done
            /\ FullyLinked(run.handed.val)
            /\ Len(run.handed.val) = Len(bytecode)
            /\ \A i \in DOMAIN bytecode :
                  IF bytecode[i].kind = "library"
                  THEN run.handed.val[i] =
                          Linked(built.val.libs[LibraryField(bytecode[i].name).field])
                  ELSE run.handed.val[i] = bytecode[i]
            /\ run.new = "UnresolvedLibrary" <=> ~FullyLinked(run.handed.val)
            /\ run.outcome = "builder"

C26_Witness ==
    /\ built.done
    /\ Len(cx.contract.bytecode) = 3
    /\ cx.contract.bytecode[1].kind = "library"
    /\ cx.contract.bytecode[2].kind = "library"
    /\ cx.contract.bytecode[1] # cx.contract.bytecode[2]
    /\ cx.contract.bytecode[3] = cx.contract.bytecode[1]
    /\ built.val.libs[LibraryField(cx.contract.bytecode[1].name).field]
          # built.val.libs[LibraryField(cx.contract.bytecode[2].name).field]
    /\ built.val.run.outcome = "builder"

(***************************************************************************)
(* C21: a generation pass has no effect other than its return value: for   *)
(* every Context, the one named DeployedContract with both network maps    *)
(* empty included, nothing is written to standard output.                  *)
(* Fails: for that Context expand_deployed prints two lines.               *)
(***************************************************************************)
C21_NothingWrittenToStdout == deployment.done => stdout = 0

(***************************************************************************)
(* The generated operations at run time                                    *)
(***************************************************************************)
\* What a call into the runtime library returns: Ok(..) or Err(..).
RuntimeResults == {"Ok", "Err"}

\* expand_filter: the method of Events that creates the builder of one
\* standard event; it is `self.instance.event(signature).expect(..)`.
expand_filter(e) ==
    [ name |-> safe_ident(to_snake_case(e.name)),
      builder_name |-> to_pascal_case(e.name) \o <<"B", "u", "i", "l", "d", "e", "r">>,
      signature |-> signature(e),
      on_error |-> "expect" ]

\* How a generated operation ends: the value is returned when the call
\* into the runtime library returns Ok; on Err, Result::expect panics,
\* and `?` would return the error.
Handle(on_error, r) ==
    IF r = "Ok" THEN "returned"
    ELSE IF on_error = "expect" THEN "panic"
    ELSE "error"

\* The statements of an operation one after the other: the first that does
\* not return a value ends the operation.
RECURSIVE Sequence(_, _)
Sequence(on_errors, results) ==
    IF on_errors = <<>> THEN "returned"
    ELSE IF Handle(Head(on_errors), Head(results)) # "returned"
    THEN Handle(Head(on_errors), Head(results))
    ELSE Sequence(Tail(on_errors), Tail(results))

\* A call: the operation's kind, what it was generated from, and what the
\* runtime library's calls returned.
Call(kind, subject, results) == [kind |-> kind, subject |-> subject, results |-> results]

RuntimeInit ==
    /\ operation = NotYet
    /\ outcome = NotYet
    /\ NamesIdle /\ EventsIdle /\ MethodsIdle /\ MacroIdle /\ DataIdle /\ DeployIdle /\ IntIdle

\* A generated method is called; instance.method / view_method returns r.
CallMethod ==
    /\ ~outcome.done
    /\ \E f \in FunctionUniverse, r \in RuntimeResults :
          /\ expand_function(f, NoAlias).ok
          /\ operation' = Done(Call("method", fn_signature(f), <<r>>))
          /\ outcome' = Done(Sequence(<<expand_function(f, NoAlias).on_error>>, <<r>>))
    /\ UNCHANGED <<namesVars, eventVars, methodVars, macroVars, dataVars, deployVars, intVars>>

\* A generated event filter method is called; instance.event returns r.
CallEventFilter ==
    /\ ~outcome.done
    /\ \E e \in EventUniverse, r \in RuntimeResults :
          /\ ~e.anonymous /\ TypesMap(e)
          /\ operation' = Done(Call("event filter", abi_signature(e), <<r>>))
          /\ outcome' = Done(Sequence(<<expand_filter(e).on_error>>, <<r>>))
    /\ UNCHANGED <<namesVars, eventVars, methodVars, macroVars, dataVars, deployVars, intVars>>

\* stream() of a generated event builder is called; the inner builder's
\* stream() returns r.
CallStream ==
    /\ ~outcome.done
    /\ \E e \in NamedEvents, r \in RuntimeResults :
          /\ ~e.anonymous /\ expand_builder_type(e).ok
          /\ operation' = Done(Call("stream", e.inputs, <<r>>))
          /\ outcome' = Done(Sequence(<<expand_builder_type(e).stream_on_error>>, <<r>>))
    /\ UNCHANGED <<namesVars, eventVars, methodVars, macroVars, dataVars, deployVars, intVars>>

\* The generated builder is called: every bytecode.link returns one of the
\* results, then DeployBuilder::new does.
CallBuilder ==
    /\ ~outcome.done
    /\ \E c \in Contexts :
          LET deploy == expand_deploy(c)
          IN  /\ deploy.ok /\ deploy.builder
              /\ \E rs \in [1..(Len(deploy.link) + 1) -> RuntimeResults] :
                    /\ operation' = Done(Call("builder", c.contract.bytecode, rs))
                    /\ outcome' =
                          Done(Sequence([i \in 1..(Len(deploy.link) + 1) |->
                                            IF i <= Len(deploy.link)
                                            THEN deploy.link_on_error
                                            ELSE deploy.builder_on_error],
                                        rs))
    /\ UNCHANGED <<namesVars, eventVars, methodVars, macroVars, dataVars, deployVars, intVars>>

RuntimeNext == CallMethod \/ CallEventFilter \/ CallStream \/ CallBuilder

SpecRuntime == RuntimeInit /\ [][RuntimeNext]_vars

(***************************************************************************)
(* C20, as claimed: a generated operation in which a call into the runtime *)
(* library fails (the method lookup or encoding, the event lookup, the     *)
(* topic filters of a stream, a library link, the deployment arguments)    *)
(* returns the error to its caller and never panics.                       *)
(***************************************************************************)
C20_FailuresAreReturned ==
    outcome.done =>
        /\ outcome.val # "panic"
        /\ (\E i \in DOMAIN operation.val.results : operation.val.results[i] = "Err")
              => outcome.val = "error"

(***************************************************************************)
(* I256, the 256-bit signed integer: int.rs                                *)
(***************************************************************************)
\* A U256 is Words words of WordDigits hexadecimal digits, the least
\* significant word first.  The source has 4 words of 16 digits (64 bits
\* each); the model keeps the layout with 2 words of 2 digits, so that
\* 2^256 is Modulus and 2^255 is MIN_ABS.
Words == 2
WordDigits == 2

RECURSIVE Pow(_, _)
Pow(base, n) == IF n = 0 THEN 1 ELSE base * Pow(base, n - 1)

WordModulus == Pow(16, WordDigits)
Modulus == Pow(WordModulus, Words)
U256_MAX == Modulus - 1
MIN_ABS == Modulus \div 2

\* !u, the bitwise complement of a U256.
Not(u) == U256_MAX - u

\* overflowing_add: the sum modulo 2^256, the carry dropped.
overflowing_add(u, w) == (u + w) % Modulus

\* twos_complement(u) = (!u).overflowing_add(1).
twos_complement(u) == overflowing_add(Not(u), 1)

\* I256::sign: the top bit of the most significant word.
sign(raw) ==
    LET most_significant_word == raw \div Pow(WordModulus, Words - 1)
    IN  IF (most_significant_word \div (WordModulus \div 2)) % 2 = 0
        THEN "Positive" ELSE "Negative"

\* overflowing_from_sign_and_abs: the value, and whether its sign differs
\* from the one asked for.
overflowing_from_sign_and_abs(s, abs) ==
    LET value == IF s = "Positive" THEN abs ELSE twos_complement(abs)
    IN  [value |-> value, overflow |-> sign(value) # s]

\* checked_from_sign_and_abs: None on overflow.
checked_from_sign_and_abs(s, abs) ==
    LET r == overflowing_from_sign_and_abs(s, abs)
    IN  IF r.overflow THEN [some |-> FALSE, value |-> 0]
        ELSE [some |-> TRUE, value |-> r.value]

\* A split that leaves the raw word as the absolute value.
into_sign_and_abs_raw(v) == [sign |-> sign(v), abs |-> v]

\* into_sign_and_abs.
into_sign_and_abs(v) ==
    [ sign |-> sign(v),
      abs |-> IF sign(v) = "Positive" THEN v ELSE twos_complement(v) ]

\* The signed number an I256 stands for.
Numeric(v) == IF v >= MIN_ABS THEN v - Modulus ELSE v

\* The digits of the two bases; char::to_digit takes both cases of a letter.
DigitTable ==
    <<"0", "1", "2", "3", "4", "5", "6", "7", "8", "9", "a", "b", "c", "d", "e", "f">>
UpperDigitTable ==
    <<"0", "1", "2", "3", "4", "5", "6", "7", "8", "9", "A", "B", "C", "D", "E", "F">>
IsDigitOf(c, radix) ==
    \E d \in 1..radix : DigitTable[d] = c \/ UpperDigitTable[d] = c
to_digit(c, radix) ==
    (CHOOSE d \in 1..radix : DigitTable[d] = c \/ UpperDigitTable[d] = c) - 1

IntOk(v) == [kind |-> "Ok", value |-> v, error |-> "none"]
IntErr(e) == [kind |-> "Err", value |-> 0, error |-> e]

\* U256::from_dec_str: InvalidCharacter unless every byte is a decimal
\* digit (the empty string has none that is not); then res = res * 10 + b
\* digit by digit, InvalidLength when a step overflows.
RECURSIVE U256_from_dec_str_loop(_, _)
U256_from_dec_str_loop(value, res) ==
    IF value = <<>> THEN IntOk(res)
    ELSE IF res * 10 > U256_MAX \/ res * 10 + to_digit(Head(value), 10) > U256_MAX
    THEN IntErr("InvalidLength")
    ELSE U256_from_dec_str_loop(Tail(value), res * 10 + to_digit(Head(value), 10))
U256_from_dec_str(value) ==
    IF \E i \in DOMAIN value : ~IsDigitOf(value[i], 10) THEN IntErr("InvalidCharacter")
    ELSE U256_from_dec_str_loop(value, 0)

\* The conversion of U256's error that `?` applies: a character that is
\* no digit is InvalidDigit, a value too long is IntegerOverflow.
ParseI256Error_from(err) ==
    IF err = "InvalidCharacter" THEN "InvalidDigit" ELSE "IntegerOverflow"

\* The match on value.as_bytes().get(0): one leading sign is taken off.
SplitSign(value) ==
    IF value # <<>> /\ Head(value) = "+" THEN [sign |-> "Positive", value |-> Tail(value)]
    ELSE IF value # <<>> /\ Head(value) = "-" THEN [sign |-> "Negative", value |-> Tail(value)]
    ELSE [sign |-> "Positive", value |-> value]

\* I256::from_dec_str.
from_dec_str(value) ==
    LET sv == SplitSign(value)
        abs == U256_from_dec_str(sv.value)
    IN  IF abs.kind = "Err" THEN IntErr(ParseI256Error_from(abs.error))
        ELSE LET checked == checked_from_sign_and_abs(sv.sign, abs.value)
             IN  IF ~checked.some THEN IntErr("IntegerOverflow")
                 ELSE IntOk(checked.value)

\* u64::from_str_radix(word, 16): one leading `+` is allowed; no digit, or
\* a character that is no digit, is an error.  A word has at most
\* WordDigits digits, so the value fits.
RECURSIVE RadixValue(_, _, _)
RadixValue(digits, radix, res) ==
    IF digits = <<>> THEN res
    ELSE RadixValue(Tail(digits), radix, res * radix + to_digit(Head(digits), radix))
u64_from_str_radix(word, radix) ==
    LET digits == IF word # <<>> /\ Head(word) = "+" THEN Tail(word) ELSE word
    IN  IF digits = <<>> \/ \E i \in DOMAIN digits : ~IsDigitOf(digits[i], radix)
        THEN IntErr("ParseIntError")
        ELSE IntOk(RadixValue(digits, radix, 0))

\* value.as_bytes().rchunks(16): the chunks of WordDigits characters from
\* the end of the text, the last chunk first; the chunk at the front of
\* the text may be shorter.
RECURSIVE rchunks(_)
rchunks(value) ==
    IF value = <<>> THEN <<>>
    ELSE IF Len(value) <= WordDigits THEN <<value>>
    ELSE <<SubSeq(value, Len(value) - WordDigits + 1, Len(value))>>
            \o rchunks(SubSeq(value, 1, Len(value) - WordDigits))

\* abs.0[i] = word for every chunk: the U256 with these words.
RECURSIVE FromWords(_, _)
FromWords(words, i) ==
    IF i > Len(words) THEN 0
    ELSE words[i].value * Pow(WordModulus, i - 1) + FromWords(words, i + 1)

\* I256::from_hex_str: IntegerOverflow for more than 64 characters after
\* the sign, then word by word, InvalidDigit for a word that does not
\* parse.
from_hex_str(value) ==
    LET sv == SplitSign(value)
        words == [i \in DOMAIN rchunks(sv.value) |->
                    u64_from_str_radix(rchunks(sv.value)[i], 16)]
    IN  IF Len(sv.value) > Words * WordDigits THEN IntErr("IntegerOverflow")
        ELSE IF \E i \in DOMAIN words : words[i].kind = "Err" THEN IntErr("InvalidDigit")
        ELSE LET checked == checked_from_sign_and_abs(sv.sign, FromWords(words, 1))
             IN  IF ~checked.some THEN IntErr("IntegerOverflow")
                 ELSE IntOk(checked.value)

(***************************************************************************)
(* The two conversions from text, on texts a caller writes                 *)
(***************************************************************************)
MaxTextLen == 5

\* The characters of the texts: the signs, digits of both bases, a digit
\* of base 16 only, and a character that is a digit of neither.
TextChars == {"+", "-", "0", "1", "4", "8", "f", "g"}
Texts == SeqsUpTo(TextChars, MaxTextLen)

ParseInit ==
    /\ literal \in Texts
    /\ parsedInt = NotYet
    /\ int = 0 /\ format = NotYet /\ conversion = NotYet /\ ordering = NotYet
    /\ NamesIdle /\ EventsIdle /\ MethodsIdle /\ MacroIdle /\ DataIdle /\ DeployIdle
    /\ RuntimeIdle

\* I256::from_dec_str(literal); after a formatting, of a decimal text.
FromDecStr ==
    /\ ~parsedInt.done
    /\ format.done => format.val.radix = 10
    /\ ~conversion.done /\ ~ordering.done
    /\ parsedInt' = Done([radix |-> 10, result |-> from_dec_str(literal)])
    /\ UNCHANGED <<literal, int, format, conversion, ordering>>
    /\ UNCHANGED <<namesVars, eventVars, methodVars, macroVars, dataVars, deployVars, runtimeVars>>

\* I256::from_hex_str(literal); after a formatting, of a hexadecimal text.
FromHexStr ==
    /\ ~parsedInt.done
    /\ format.done => format.val.radix = 16
    /\ ~conversion.done /\ ~ordering.done
    /\ parsedInt' = Done([radix |-> 16, result |-> from_hex_str(literal)])
    /\ UNCHANGED <<literal, int, format, conversion, ordering>>
    /\ UNCHANGED <<namesVars, eventVars, methodVars, macroVars, dataVars, deployVars, runtimeVars>>

ParseNext == FromDecStr \/ FromHexStr

SpecParse == ParseInit /\ [][ParseNext]_vars

\* The text is an optional sign and a magnitude of the base: at least one
\* digit, and digits only.
IsMagnitude(value, radix) ==
    value # <<>> /\ \A i \in DOMAIN value : IsDigitOf(value[i], radix)
WellFormed(value, radix) == IsMagnitude(SplitSign(value).value, radix)

\* The number a well-formed text denotes; texts are short enough for the
\* magnitude to be computed exactly.
Magnitude(value, radix) == RadixValue(SplitSign(value).value, radix, 0)
Denoted(value, radix) ==
    IF SplitSign(value).sign = "Negative" THEN 0 - Magnitude(value, radix)
    ELSE Magnitude(value, radix)

(***************************************************************************)
(* C22, as claimed: for a text that is an optional `+` or `-` and a        *)
(* magnitude m of the base, from_dec_str and from_hex_str return Ok(v)     *)
(* with v equal to +m or -m when that number lies in [-2^255, 2^255 - 1],  *)
(* and Err(IntegerOverflow) exactly when it lies outside.                  *)
(* Fails: `-0` is refused as an overflow, and so is a hexadecimal text of  *)
(* more than 64 digits whose value is in the range.                        *)
(***************************************************************************)
C22_ParsesExactlyTheRange ==
    (parsedInt.done /\ WellFormed(literal, parsedInt.val.radix)) =>
        LET n == Denoted(literal, parsedInt.val.radix)
        IN  IF 0 - MIN_ABS <= n /\ n <= MIN_ABS - 1
            THEN /\ parsedInt.val.result.kind = "Ok"
                 /\ Numeric(parsedInt.val.result.value) = n
            ELSE parsedInt.val.result = IntErr("IntegerOverflow")

(***************************************************************************)
(* C25, as claimed: from_dec_str and from_hex_str return Err(InvalidDigit) *)
(* for every text that, after at most one leading sign, is empty or holds  *)
(* a character that is no digit of the base (a further sign included).     *)
(* Fails: the empty text and a lone `+` are Ok(0), a lone `-` is an        *)
(* overflow, and from_hex_str takes a `+` at the front of a 16-digit word. *)
(***************************************************************************)
C25_MalformedTextIsInvalidDigit ==
    (parsedInt.done /\ ~WellFormed(literal, parsedInt.val.radix)) =>
        parsedInt.val.result = IntErr("InvalidDigit")

(***************************************************************************)
(* Formatting, conversions and comparisons of I256 values                  *)
(***************************************************************************)
\* write!(f, "{}", abs) and write!(f, "{:x}", abs): the digits of a U256
\* in the base, without leading zeros, `0` for zero.
RECURSIVE U256_fmt(_, _)
U256_fmt(u, radix) ==
    IF u < radix THEN <<DigitTable[u + 1]>>
    ELSE Append(U256_fmt(u \div radix, radix), DigitTable[(u % radix) + 1])

\* Display for Sign: `-` for Negative, `+` for Positive with the plus flag.
Sign_fmt(s, sign_plus) ==
    IF s = "Negative" THEN <<"-">>
    ELSE IF sign_plus THEN <<"+">> ELSE <<>>

\* A formatting of the raw word after the sign.
I256_fmt_raw(v, radix, sign_plus) ==
    Sign_fmt(into_sign_and_abs_raw(v).sign, sign_plus)
        \o U256_fmt(into_sign_and_abs_raw(v).abs, radix)

\* Display for I256 (radix 10) and LowerHex for I256 (radix 16): the sign,
\* then the absolute value.
I256_fmt(v, radix, sign_plus) ==
    Sign_fmt(into_sign_and_abs(v).sign, sign_plus)
        \o U256_fmt(into_sign_and_abs(v).abs, radix)

\* {} and {:+}, {:x} and {:+x}.
Formats == [radix : {10, 16}, sign_plus : BOOLEAN]

\* The I256 values of the model: every value whose hexadecimal digits are
\* among these; 0, -1, the minimum and the maximum are such values.
ValueDigits == {0, 7, 8, 15}
RECURSIVE DigitsValue(_, _)
DigitsValue(ds, i) ==
    IF i > Len(ds) THEN 0 ELSE ds[i] * Pow(16, i - 1) + DigitsValue(ds, i + 1)
I256Values == {DigitsValue(ds, 1) : ds \in [1..(Words * WordDigits) -> ValueDigits]}

\* The values an I256 is compared with.
OtherValues == {0, 1, MIN_ABS - 1, MIN_ABS, MIN_ABS + 1, U256_MAX}

\* derive(Ord) on I256(U256): the order of the raw U256.
cmp(x, y) == IF x < y THEN "Less" ELSE IF x = y THEN "Equal" ELSE "Greater"

\* PartialOrd for I256.
partial_cmp(x, y) ==
    LET this == into_sign_and_abs(x)
        other == into_sign_and_abs(y)
    IN  IF this.sign = "Positive" /\ other.sign = "Negative" THEN "Greater"
        ELSE IF this.sign = "Negative" /\ other.sign = "Positive" THEN "Less"
        ELSE IF this.sign = "Positive" THEN cmp(this.abs, other.abs)
        ELSE cmp(other.abs, this.abs)

\* The primitive integer types of impl_std_int_from_and_into, by their
\* width in bits: a u64 is one word of the U256, a u32 half a word.
PrimType(name, signed, bits) == [name |-> name, signed |-> signed, bits |-> bits]
PrimTypes ==
    { PrimType("u32", FALSE, 2 * WordDigits), PrimType("u64", FALSE, 4 * WordDigits),
      PrimType("i32", TRUE, 2 * WordDigits), PrimType("i64", TRUE, 4 * WordDigits) }
min_value(t) == IF t.signed THEN 0 - Pow(2, t.bits - 1) ELSE 0
max_value(t) == IF t.signed THEN Pow(2, t.bits - 1) - 1 ELSE Pow(2, t.bits) - 1

\* The values of a primitive type a conversion is given.
PrimValues(t) ==
    {x \in {min_value(t), min_value(t) + 1, 0 - 1, 0, 1, max_value(t) - 1, max_value(t)} :
        min_value(t) <= x /\ x <= max_value(t)}

Panic == [kind |-> "panic", value |-> 0, error |-> "none"]

\* `0 - value` in the type t: a difference out of the type's range panics
\* in a build with overflow checks and wraps in one without.
checked_sub(t, x, y, overflow_checks) ==
    IF min_value(t) <= x - y /\ x - y <= max_value(t) THEN IntOk(x - y)
    ELSE IF overflow_checks THEN Panic
    ELSE IntOk(((x - y - min_value(t)) % Pow(2, t.bits)) + min_value(t))

\* U256::from(value) of a primitive integer: a negative value panics.
U256_from(x) == IF x < 0 THEN Panic ELSE IntOk(x)

\* From<t> for I256: twos_complement(U256::from(0 - value)) for a value
\* below zero, U256::from(value) otherwise.
I256_from(t, x, overflow_checks) ==
    IF x < 0
    THEN LET negated == checked_sub(t, 0, x, overflow_checks)
         IN  IF negated.kind = "panic" THEN Panic
             ELSE IF U256_from(negated.value).kind = "panic" THEN Panic
             ELSE IntOk(twos_complement(U256_from(negated.value).value))
    ELSE U256_from(x)

\* self.0.low_u128() as t: the two low words, cut to the width of t.
low_u128(u) == u % Pow(WordModulus, 2)
as_cast(u, t) ==
    LET r == u % Pow(2, t.bits)
    IN  IF t.signed /\ r >= Pow(2, t.bits - 1) THEN r - Pow(2, t.bits) ELSE r

\* TryInto<t> for I256: the bounds are I256::from(min_value) and
\* I256::from(max_value), compared with < and > (partial_cmp).
try_into(v, t, overflow_checks) ==
    LET lo == I256_from(t, min_value(t), overflow_checks)
        hi == I256_from(t, max_value(t), overflow_checks)
    IN  IF lo.kind = "panic" THEN Panic
        ELSE IF partial_cmp(v, lo.value) = "Less" THEN IntErr("TryFromBigIntError")
        ELSE IF hi.kind = "panic" THEN Panic
        ELSE IF partial_cmp(v, hi.value) = "Greater" THEN IntErr("TryFromBigIntError")
        ELSE IntOk(as_cast(low_u128(v), t))

\* as_i32, as_i64, as_i128: (*self).try_into().unwrap().
as_primitive(v, t, overflow_checks) ==
    IF try_into(v, t, overflow_checks).kind = "Ok" THEN try_into(v, t, overflow_checks)
    ELSE Panic

I256Init ==
    /\ int \in I256Values
    /\ literal = <<>>
    /\ parsedInt = NotYet /\ format = NotYet /\ conversion = NotYet /\ ordering = NotYet
    /\ NamesIdle /\ EventsIdle /\ MethodsIdle /\ MacroIdle /\ DataIdle /\ DeployIdle
    /\ RuntimeIdle

\* format!(..) of `int` with one of the four formats.
Format ==
    /\ ~format.done /\ ~parsedInt.done /\ ~conversion.done /\ ~ordering.done
    /\ \E f \in Formats :
          /\ format' = Done(f)
          /\ literal' = I256_fmt(int, f.radix, f.sign_plus)
    /\ UNCHANGED <<int, parsedInt, conversion, ordering>>
    /\ UNCHANGED <<namesVars, eventVars, methodVars, macroVars, dataVars, deployVars, runtimeVars>>

\* int.try_into() for a primitive type.
TryInto ==
    /\ ~format.done /\ ~parsedInt.done /\ ~conversion.done /\ ~ordering.done
    /\ \E t \in PrimTypes, overflow_checks \in BOOLEAN :
          conversion' = Done([op |-> "try_into", type |-> t, input |-> int,
                              result |-> try_into(int, t, overflow_checks)])
    /\ UNCHANGED <<literal, int, parsedInt, format, ordering>>
    /\ UNCHANGED <<namesVars, eventVars, methodVars, macroVars, dataVars, deployVars, runtimeVars>>

\* int.as_i32(), int.as_i64().
AsPrimitive ==
    /\ ~format.done /\ ~parsedInt.done /\ ~conversion.done /\ ~ordering.done
    /\ \E t \in {u \in PrimTypes : u.signed}, overflow_checks \in BOOLEAN :
          conversion' = Done([op |-> "as", type |-> t, input |-> int,
                              result |-> as_primitive(int, t, overflow_checks)])
    /\ UNCHANGED <<literal, int, parsedInt, format, ordering>>
    /\ UNCHANGED <<namesVars, eventVars, methodVars, macroVars, dataVars, deployVars, runtimeVars>>

\* I256::from(x) for a value x of a primitive type.
FromPrimitive ==
    /\ ~format.done /\ ~parsedInt.done /\ ~conversion.done /\ ~ordering.done
    /\ \E t \in PrimTypes, overflow_checks \in BOOLEAN :
          \E x \in PrimValues(t) :
              conversion' = Done([op |-> "from", type |-> t, input |-> x,
                                  result |-> I256_from(t, x, overflow_checks)])
    /\ UNCHANGED <<literal, int, parsedInt, format, ordering>>
    /\ UNCHANGED <<namesVars, eventVars, methodVars, macroVars, dataVars, deployVars, runtimeVars>>

\* int.cmp(&other) and int.partial_cmp(&other).
Compare ==
    /\ ~format.done /\ ~parsedInt.done /\ ~conversion.done /\ ~ordering.done
    /\ \E other \in OtherValues :
          ordering' = Done([other |-> other, cmp |-> cmp(int, other),
                            partial_cmp |-> partial_cmp(int, other)])
    /\ UNCHANGED <<literal, int, parsedInt, format, conversion>>
    /\ UNCHANGED <<namesVars, eventVars, methodVars, macroVars, dataVars, deployVars, runtimeVars>>

I256Next ==
    Format \/ FromDecStr \/ FromHexStr \/ TryInto \/ AsPrimitive \/ FromPrimitive \/ Compare

SpecI256 == I256Init /\ [][I256Next]_vars

\* The absolute value of the number an I256 stands for.
AbsNumeric(v) == IF Numeric(v) < 0 THEN 0 - Numeric(v) ELSE Numeric(v)

(***************************************************************************)
(* C23: formatting and parsing round-trip.  For every I256 v and each of   *)
(* the formats {}, {:+}, {:x}, {:+x}, the text is the sign (`-` for a      *)
(* negative v, `+` for another v with the plus flag, nothing otherwise)    *)
(* followed by the absolute value in the base, and from_dec_str,           *)
(* respectively from_hex_str, of that text returns Ok(v).                  *)
(***************************************************************************)
C23_FormatParseRoundTrip ==
    format.done =>
        /\ literal =
              (IF Numeric(int) < 0 THEN <<"-">>
               ELSE IF format.val.sign_plus THEN <<"+">> ELSE <<>>)
                 \o U256_fmt(AbsNumeric(int), format.val.radix)
        /\ parsedInt.done => parsedInt.val.result = IntOk(int)

C23_Witness ==
    /\ format.done /\ parsedInt.done
    /\ int = MIN_ABS
    /\ format.val.radix = 10
    /\ parsedInt.val.result = IntOk(MIN_ABS)

\* The number is within the range of the primitive type.
InRange(n, t) == min_value(t) <= n /\ n <= max_value(t)

(***************************************************************************)
(* C24, as claimed: the checked conversion of an I256 v to a primitive     *)
(* integer type t returns the integer equal to v when v is within the      *)
(* range of t and fails with TryFromBigIntError otherwise; as_i32, as_i64  *)
(* and as_i128 panic only for a v outside the range; and I256::from(x)     *)
(* equals x for every x of such a type, the minimum of a signed type       *)
(* included.                                                               *)
(* Fails: I256::from panics for the minimum of a signed type, and with it  *)
(* every conversion to a signed type, which computes that bound first.     *)
(***************************************************************************)
C24_ConversionsAreExact ==
    conversion.done =>
        LET c == conversion.val
        IN  /\ c.op = "try_into" =>
                  IF InRange(Numeric(c.input), c.type)
                  THEN c.result = IntOk(Numeric(c.input))
                  ELSE c.result = IntErr("TryFromBigIntError")
            /\ c.op = "as" =>
                  IF InRange(Numeric(c.input), c.type)
                  THEN c.result = IntOk(Numeric(c.input))
                  ELSE c.result = Panic
            /\ c.op = "from" =>
                  c.result.kind = "Ok" /\ Numeric(c.result.value) = c.input

\* The order of the signed numbers two I256 stand for.
NumericOrder(x, y) ==
    IF Numeric(x) < Numeric(y) THEN "Less"
    ELSE IF Numeric(x) = Numeric(y) THEN "Equal" ELSE "Greater"

(***************************************************************************)
(* C30, as claimed: for every pair of I256 values the derived Ord::cmp and *)
(* the hand-written partial_cmp agree, and both are the order of the       *)
(* signed numbers: a negative value is less than every other value.        *)
(* Fails: Ord::cmp compares the raw words, so a negative value is greater  *)
(* than every value that is not negative.                                  *)
(***************************************************************************)
C30_OrdersAgree ==
    ordering.done =>
        /\ ordering.val.cmp = ordering.val.partial_cmp
        /\ ordering.val.cmp = NumericOrder(int, ordering.val.other)
        /\ ordering.val.partial_cmp = NumericOrder(int, ordering.val.other)

====
